---- MODULE Spec2Model ----
(***************************************************************************)
(* Model of the repository miner: the resumable mining session             *)
(* (miners/github_miner.py), the progress store                            *)
(* (cache/progress_manager.py) and the adaptive star-window search         *)
(* (services/repository_service.py).                                       *)
(*                                                                         *)
(* Durable state: the progress file, the batch artifacts and the final     *)
(* consolidated file.  Volatile state: the ProgressManager's progress_data *)
(* and the locals of mine_repositories / _process_batch.                   *)
(***************************************************************************)
EXTENDS Integers, Sequences, FiniteSets, TLC

(***************************************************************************)
(* Configuration (setup/config.py) and bounds.                             *)
(***************************************************************************)
BATCH_SIZE == 2
TOTAL_TARGET_REPOS == 2
REPOS_PER_PAGE == 1
MaxPages == 10
SaveEvery == 5
MAX_ISSUE_CLOSE_DAYS == 3

\* Longest result list the upstream search holds for one query.
MaxWindow == 2

\* Number of sessions (runs of the program) explored.
MaxSessions == 3

\* Accepted and rejected candidates explored by FlushSpec.
MaxAccepted == 11

MaxRejected == 2

\* Batch files and records per batch file explored by ConsolidateSpec.
MaxBatches == 2

MaxBatchLen == 2

\* Nested calls the interpreter allows before it raises RecursionError
\* (sys.getrecursionlimit(), never changed by the program), scaled down.
RecursionLimit == 3

\* The configurations a run can be started with: MIN_STARS is 1 in the
\* first and 0 in the second (the other hashed parameters are equal).
Configs == {[min_stars |-> 1], [min_stars |-> 0]}

\* Python's None for the optional star ceiling is <<>>, a value p is <<p>>.
NoCeiling == <<>>

\* Python's None for the average get_avg_issue_close_time returns is <<>>, an
\* average is <<[total |-> t, count |-> c]>>, the exact quotient t / c in days.
NoAverage == <<>>

\* What the upstream can answer for one candidate: its pull-request
\* comparison data (none or some) and the durations in days of its closed
\* issues (none; mean 2; mean exactly 3; mean 4).
PrInputs == {<<>>, <<"pr">>}

IssueInputs == {<<>>, <<2>>, <<2, 4>>, <<4>>}

\* config_hash of a progress file that never stored a search.
NoHash == "None"

\* The value of cfg while no session runs.
NoSession == "none"

(***************************************************************************)
(* The upstream corpus: three repositories with 2, 1 and 0 stars.          *)
(***************************************************************************)
Names == {"a", "b", "c"}

StarsOf(n) == CASE n = "a" -> 2 [] n = "b" -> 1 [] OTHER -> 0

\* A search result item.  fetched_for records the configuration hash whose
\* query returned the item (history information, the code never reads it).
Candidate(n, h) == [full_name |-> n, stargazers_count |-> StarsOf(n), fetched_for |-> h]

(***************************************************************************)
(* cache/progress_manager.py                                               *)
(***************************************************************************)
get_config_hash(c) == IF c.min_stars = 1 THEN "h1" ELSE "h0"

_create_empty_progress ==
    [total_processed |-> 0,
     last_index      |-> 0,
     processed_repos |-> <<>>,
     rejected_repos  |-> <<>>,
     search_results  |-> <<>>,
     config_hash     |-> NoHash,
     cache_exhausted |-> FALSE]

get_next_start_index(p) == p.last_index

\* Variant: the stored results are returned whatever the stored hash.
get_search_results_anyHash(p, h) == p.search_results

\* None is returned as <<>>: the one caller takes "result or []".
get_search_results(p, h) ==
    IF p.config_hash = h /\ p.search_results # <<>>
    THEN p.search_results
    ELSE <<>>

\* Variant: the index is reset on every save, also when the cache expands.
save_search_results_reset(p, repos, h) ==
    [p EXCEPT !.last_index = 0, !.cache_exhausted = FALSE,
              !.search_results = repos, !.config_hash = h]

\* The in-memory effect of save_search_results; the caller writes the file.
save_search_results(p, repos, h) ==
    LET existing_repos == p.search_results
        p1 == IF existing_repos # <<>> /\ Len(repos) > Len(existing_repos)
              THEN [p EXCEPT !.cache_exhausted = FALSE]
              ELSE IF existing_repos = <<>>
                   THEN [p EXCEPT !.last_index = 0, !.cache_exhausted = FALSE]
                   ELSE p
    IN [p1 EXCEPT !.search_results = repos, !.config_hash = h]

\* Variant: an accepted record is appended without being counted.
update_progress_uncounted(p, processed_repo, rejected_list, current_index) ==
    [p EXCEPT !.processed_repos = @ \o processed_repo,
              !.rejected_repos = @ \o rejected_list,
              !.last_index = current_index]

\* Variant: the index advances only when the candidate was accepted.
update_progress_acceptedOnly(p, processed_repo, rejected_list, current_index) ==
    IF processed_repo # <<>>
    THEN [p EXCEPT !.processed_repos = @ \o processed_repo,
                   !.total_processed = @ + 1,
                   !.last_index = current_index]
    ELSE [p EXCEPT !.rejected_repos = @ \o rejected_list]

\* The in-memory effect of update_progress: processed_repo is <<>> for None
\* and <<name>> for an accepted record.
update_progress(p, processed_repo, rejected_list, current_index) ==
    LET p1 == IF processed_repo # <<>>
              THEN [p EXCEPT !.processed_repos = @ \o processed_repo,
                             !.total_processed = @ + 1]
              ELSE p
    IN [p1 EXCEPT !.rejected_repos = @ \o rejected_list,
                  !.last_index = current_index]

\* The identities progress p records as accepted or rejected.
RecordedIdentities(p) ==
    {p.processed_repos[j] : j \in 1 .. Len(p.processed_repos)}
        \cup {p.rejected_repos[j] : j \in 1 .. Len(p.rejected_repos)}

\* Variant: the file is written at every tenth accepted candidate only.
PeriodicSave_everyTenth(p) == p.total_processed % (2 * SaveEvery) = 0

\* update_progress writes the file when this holds after the update.
PeriodicSave(p) == p.total_processed % SaveEvery = 0

(***************************************************************************)
(* services/repository_service.py                                          *)
(***************************************************************************)
Truthy(max_stars) == max_stars # NoCeiling /\ max_stars[1] # 0

\* The star range of the query, or <<>> when no request is issued.
\* hi = <<>> is "stars:>=lo", hi = <<k>> is "stars:lo..k".
StarsQuery(min_stars, max_stars) ==
    IF Truthy(max_stars) /\ max_stars[1] <= min_stars
    THEN <<>>
    ELSE IF Truthy(max_stars)
         THEN <<[lo |-> min_stars, hi |-> <<max_stars[1] - 1>>]>>
         ELSE <<[lo |-> min_stars, hi |-> NoCeiling]>>

\* Page page_num of the upstream result list.
PageOf(results, page_num) ==
    SubSeq(results, (page_num - 1) * REPOS_PER_PAGE + 1,
           IF page_num * REPOS_PER_PAGE < Len(results)
           THEN page_num * REPOS_PER_PAGE ELSE Len(results))

RECURSIVE PagesFrom(_, _, _)
PagesFrom(results, page_num, all_repos) ==
    IF page_num > MaxPages
    THEN all_repos
    ELSE LET page_repos == PageOf(results, page_num)
         IN IF Len(page_repos) < REPOS_PER_PAGE
            THEN all_repos \o page_repos
            ELSE PagesFrom(results, page_num + 1, all_repos \o page_repos)

_search_repositories_paginated(results) == PagesFrom(results, 1, <<>>)

(***************************************************************************)
(* The upstream search API: for a query it holds a result list ordered by  *)
(* stars descending, every item within the star range.  The same           *)
(* repository can be listed twice (the ranking moves between two page      *)
(* requests).                                                              *)
(***************************************************************************)
InRange(n, q) == StarsOf(n) >= q.lo /\ (q.hi = NoCeiling \/ StarsOf(n) <= q.hi[1])

Descending(s) ==
    \A j \in 1 .. Len(s) - 1 : s[j].stargazers_count >= s[j + 1].stargazers_count

UpstreamResults(q, h) ==
    LET items == {Candidate(n, h) : n \in {m \in Names : InRange(m, q)}}
    IN {s \in UNION {[1 .. k -> items] : k \in 0 .. MaxWindow} : Descending(s)}

(***************************************************************************)
(* services/issue_service.py                                               *)
(***************************************************************************)
RECURSIVE SumSeq(_)
SumSeq(s) == IF s = <<>> THEN 0 ELSE s[1] + SumSeq(Tail(s))

get_avg_issue_close_time(durations) ==
    IF Len(durations) = 0
    THEN NoAverage
    ELSE <<[total |-> SumSeq(durations), count |-> Len(durations)]>>

(***************************************************************************)
(* miners/github_miner.py                                                  *)
(***************************************************************************)
\* avg_days >= max_days, for an average that is not None.
AverageAtLeast(avg_days, max_days) ==
    avg_days[1].total >= max_days * avg_days[1].count

\* Variant: only an average above the maximum rejects.
_process_repository_strictlyAbove(prs_data, avg_days) ==
    /\ prs_data # <<>>
    /\ avg_days # NoAverage
    /\ ~(avg_days[1].total > MAX_ISSUE_CLOSE_DAYS * avg_days[1].count)

\* TRUE when _process_repository returns a RepositoryData, FALSE when None.
_process_repository(prs_data, avg_days) ==
    /\ prs_data # <<>>
    /\ avg_days # NoAverage
    /\ ~AverageAtLeast(avg_days, MAX_ISSUE_CLOSE_DAYS)

FullNames(repos) == {repos[j].full_name : j \in 1 .. Len(repos)}

\* unique_new of _ensure_sufficient_repo_cache.
UniqueNew(repos, new_repos) ==
    SelectSeq(new_repos, LAMBDA r : r.full_name \notin FullNames(repos))

batch_number_zeroBased(start) == start \div BATCH_SIZE

batch_number(start) == (start \div BATCH_SIZE) + 1

Min2(x, y) == IF x < y THEN x ELSE y

RECURSIVE ConcatBatches(_, _)
ConcatBatches(b, ids) ==
    IF ids = {} THEN <<>>
    ELSE LET k == CHOOSE x \in ids : \A y \in ids : x <= y
         IN b[k] \o ConcatBatches(b, ids \ {k})

(***************************************************************************)
(* services/github_api.py: GitHubAPIService.make_request.                  *)
(***************************************************************************)
Range(s) == {s[j] : j \in 1 .. Len(s)}

\* The requests a caller makes: url, params and use_cache.  params is a
\* dict: its items <<name, value>> in insertion order, names distinct.
Urls == {"pulls", "issues"}

Params ==
    {<<>>,
     <<<<"page", "1">>, <<"state", "closed">>>>,
     <<<<"state", "closed">>, <<"page", "1">>>>}

\* The parameter names the services use, in the order sorted() gives them.
ParamNames == <<"page", "per_page", "sha", "state", "until">>

\* The JSON bodies the upstream answers with: lists of items.
Bodies == {<<>>, <<4>>}

\* What requests.get returns: the status code, the X-RateLimit-Remaining
\* header (<<>> when absent), the JSON body and whether the Link header
\* names a next page.
ResponsesWith(bodies, nexts) ==
    [status_code : {200}, remaining : {<<1>>}, body : bodies, next : nexts]
        \cup [status_code : {403}, remaining : {<<>>, <<0>>, <<1>>},
              body : {<<>>}, next : {FALSE}]
        \cup [status_code : {404, 429}, remaining : {<<>>},
              body : {<<>>}, next : {FALSE}]

Responses == ResponsesWith(Bodies, {FALSE})

\* No response at hand; the request raised an exception.
NoResponse == [status_code |-> 0, remaining |-> <<>>, body |-> <<>>, next |-> FALSE]

RequestFailed == [status_code |-> 0, remaining |-> <<0>>, body |-> <<>>, next |-> FALSE]

\* make_request returns a response, <<response>>, or None.
None == <<>>

\* int(response.headers.get('X-RateLimit-Remaining', 0))
rate_limit_remaining(response) ==
    IF response.remaining = <<>> THEN 0 ELSE response.remaining[1]

\* The two branches of make_request that sleep and call make_request again.
RateLimited(response) ==
    \/ response.status_code = 403 /\ rate_limit_remaining(response) = 0
    \/ response.status_code = 429

\* sorted(params.items()): the items by name, in the order of ParamNames.
RECURSIVE sorted(_, _)
sorted(params, names) ==
    IF names = <<>> THEN <<>>
    ELSE SelectSeq(params, LAMBDA item : item[1] = Head(names))
             \o sorted(params, Tail(names))

\* "&".join(f"{k}={v}" ...): the pieces of the string, "&" between items.
RECURSIVE join(_)
join(items) ==
    IF items = <<>> THEN <<>>
    ELSE IF Len(items) = 1 THEN <<<<items[1][1], "=", items[1][2]>>>>
    ELSE <<<<items[1][1], "=", items[1][2]>>, <<"&">>>> \o join(Tail(items))

\* Variant: the items are joined in insertion order.
_get_cache_key_unsorted(url, params) ==
    IF params # <<>> THEN <<<<"url", url>>, <<"?">>>> \o join(params)
    ELSE <<<<"url", url>>>>

\* key = url, then "?" and the joined sorted items when params is not empty;
\* the key is the sequence of the pieces of that string.
_get_cache_key(url, params) ==
    IF params # <<>> THEN <<<<"url", url>>, <<"?">>>> \o join(sorted(params, ParamNames))
    ELSE <<<<"url", url>>>>

\* The synthetic response make_request builds on a cache hit.
cached_response(body) ==
    [status_code |-> 200, remaining |-> <<>>, body |-> body, next |-> FALSE]

\* self.cache[cache_key] = response.json()
CachePut(cache, key, body) ==
    [k \in DOMAIN cache \cup {key} |-> IF k = key THEN body ELSE cache[k]]

\* The service with an empty cache and no call in progress; the upstream
\* may answer with rate-limit responses.  answered is history: the
\* <<url, set of items, body>> of the use_cache calls that returned 200.
NoCall ==
    [phase |-> "idle", url |-> "pulls", params |-> <<>>, use_cache |-> TRUE,
     depth |-> 0, response |-> NoResponse, result |-> None,
     cache |-> <<>>, throttling |-> TRUE, answered |-> {}]


VARIABLES
    file,           \* .data/mining_progress.json
    batches,        \* results/batches: batch number -> accepted names
    final,          \* results/final: the consolidated names
    pd,             \* ProgressManager.progress_data
    pc,             \* "idle", "ensure", "merge" or "batch"
    cfg,            \* the configuration of the running session
    start_index,    \* local of mine_repositories
    repos,          \* local of mine_repositories / _ensure_sufficient_repo_cache
    i,              \* loop index of _process_batch
    batch_accepted_data, \* local of _process_batch
    query,          \* the search request issued by the session, or <<>>
    new_repos,      \* what that search returned
    exit,           \* how the most recent ended session ended
    rejectedUnder,  \* history: the <<configuration hash, full_name>> of
                    \* every rejection so far
    candidate_data, \* <<>>, or <<[prs_data, avg_days]>>: what the services
                    \* returned to _process_repository for the candidate at hand
    atBatchStart,   \* history: progress_data when the running session entered
                    \* _process_batch
    evaluated,      \* history: the <<cache index, accepted>> of the candidates
                    \* the running session evaluated, in order
    flushedAtStart, \* history: the identities the progress file held as
                    \* accepted or rejected when the running session began
    usedConfigs,    \* history: the configuration hashes sessions ran with
    sessions,       \* history: the number of sessions started
    api             \* the GitHubAPIService: its cache, the make_request call
                    \* in progress and the upstream it talks to

vars == <<file, batches, final, pd, pc, cfg, start_index, repos, i,
          batch_accepted_data, query, new_repos, exit, rejectedUnder,
          candidate_data, atBatchStart, evaluated, flushedAtStart, usedConfigs,
          sessions, api>>

Init ==
    /\ file = _create_empty_progress
    /\ batches = <<>>
    /\ final = <<>>
    /\ pd = _create_empty_progress
    /\ pc = "idle"
    /\ cfg = NoSession
    /\ start_index = 0
    /\ repos = <<>>
    /\ i = 0
    /\ batch_accepted_data = <<>>
    /\ query = <<>>
    /\ new_repos = <<>>
    /\ exit = "none"
    /\ rejectedUnder = {}
    /\ flushedAtStart = {}
    /\ atBatchStart = _create_empty_progress
    /\ candidate_data = <<>>
    /\ evaluated = <<>>
    /\ usedConfigs = {}
    /\ sessions = 0
    /\ api = NoCall

\* _save_final_results: concatenate the batch files in name order, write the
\* final file, delete the batch directory; nothing when there is no batch.
SaveFinalBatches(b) == IF DOMAIN b = {} THEN b ELSE <<>>

\* Variant: the final file is written also when there is no batch file.
SaveFinalFile_noBatchCheck(b, f) == ConcatBatches(b, DOMAIN b)

SaveFinalFile(b, f) == IF DOMAIN b = {} THEN f ELSE ConcatBatches(b, DOMAIN b)

\* The process has ended: its memory is gone.
EndSession(how) ==
    /\ pc' = "idle"
    /\ exit' = how
    /\ cfg' = NoSession
    /\ start_index' = 0
    /\ repos' = <<>>
    /\ i' = 0
    /\ batch_accepted_data' = <<>>
    /\ query' = <<>>
    /\ new_repos' = <<>>
    /\ flushedAtStart' = {}
    /\ atBatchStart' = _create_empty_progress
    /\ candidate_data' = <<>>
    /\ UNCHANGED api
    /\ evaluated' = <<>>

\* Variant: the target is never found reached at session start.
TargetReached_never(p) == FALSE

\* mine_repositories: "if stats['total_processed'] >= TOTAL_TARGET_REPOS".
TargetReached(p) == p.total_processed >= TOTAL_TARGET_REPOS

\* GitHubMiner() loads the progress file; mine_repositories finds the target
\* reached, consolidates and returns.
SessionTargetReached(c) ==
    /\ pc = "idle"
    /\ sessions < MaxSessions
    /\ sessions' = sessions + 1
    /\ TargetReached(file)
    /\ pd' = file
    /\ usedConfigs' = usedConfigs \cup {get_config_hash(c)}
    /\ batches' = SaveFinalBatches(batches)
    /\ final' = SaveFinalFile(batches, final)
    /\ EndSession("target")
    /\ UNCHANGED <<file, rejectedUnder>>

\* GitHubMiner() loads the progress file; mine_repositories enters the try
\* block with start_index = last_index.
SessionBegin(c) ==
    /\ pc = "idle"
    /\ sessions < MaxSessions
    /\ sessions' = sessions + 1
    /\ ~TargetReached(file)
    /\ pd' = file
    /\ cfg' = c
    /\ usedConfigs' = usedConfigs \cup {get_config_hash(c)}
    /\ start_index' = get_next_start_index(file)
    /\ flushedAtStart' = RecordedIdentities(file)
    /\ UNCHANGED <<atBatchStart, evaluated, candidate_data, api>>
    /\ pc' = "ensure"
    /\ UNCHANGED <<file, batches, final, repos, i, batch_accepted_data,
                   query, new_repos, exit, rejectedUnder>>

\* What mine_repositories does with the list _ensure_sufficient_repo_cache
\* returned (rs), progress_data being p and the progress file f by then:
\* end the session ("no more repositories", _finalize_execution) or enter
\* the batch.
AfterEnsure(p, f, rs) ==
    /\ pd' = p
    /\ IF rs = <<>> \/ start_index >= Len(rs)
       THEN /\ file' = p
            /\ EndSession("nothing")
       ELSE /\ pc' = "batch"
            /\ file' = f
            /\ repos' = rs
            /\ i' = 0
            /\ batch_accepted_data' = <<>>
            /\ query' = <<>>
            /\ new_repos' = <<>>
            /\ atBatchStart' = p
            /\ UNCHANGED <<start_index, exit, cfg, flushedAtStart, evaluated,
                           candidate_data, api>>

\* Variant: the strategy is invoked whatever the resume index.
CacheExhausted_always(start, rs) == TRUE

\* _ensure_sufficient_repo_cache goes past "if start_index < len(repos):
\* return repos" and invokes the search strategy.
CacheExhausted(start, rs) == start >= Len(rs)

\* The star ceiling _ensure_sufficient_repo_cache passes to the strategy.
NextCeiling(rs) ==
    IF rs # <<>> THEN <<rs[Len(rs)].stargazers_count>> ELSE NoCeiling

\* _ensure_sufficient_repo_cache: the cache is sufficient.
CacheSufficient ==
    /\ pc = "ensure"
    /\ LET rs == get_search_results(pd, get_config_hash(cfg))
       IN /\ ~CacheExhausted(start_index, rs)
          /\ AfterEnsure(pd, file, rs)
    /\ UNCHANGED <<batches, final, rejectedUnder, usedConfigs, sessions>>

\* _ensure_sufficient_repo_cache: the ceiling is at or below MIN_STARS, the
\* strategy issues no request and returns [].
CacheNoRequest ==
    /\ pc = "ensure"
    /\ LET rs == get_search_results(pd, get_config_hash(cfg))
       IN /\ CacheExhausted(start_index, rs)
          /\ StarsQuery(cfg.min_stars, NextCeiling(rs)) = <<>>
          /\ AfterEnsure(pd, file, rs)
    /\ UNCHANGED <<batches, final, rejectedUnder, usedConfigs, sessions>>

\* _ensure_sufficient_repo_cache up to the return of the strategy: the
\* window is requested and the pages are received.
RequestWindow ==
    /\ pc = "ensure"
    /\ LET h  == get_config_hash(cfg)
           rs == get_search_results(pd, h)
           q  == StarsQuery(cfg.min_stars, NextCeiling(rs))
       IN /\ CacheExhausted(start_index, rs)
          /\ q # <<>>
          /\ repos' = rs
          /\ query' = q
          /\ \E results \in UpstreamResults(q[1], h) :
                new_repos' = _search_repositories_paginated(results)
    /\ pc' = "merge"
    /\ UNCHANGED <<file, batches, final, pd, cfg, start_index, i,
                   batch_accepted_data, exit, rejectedUnder, flushedAtStart,
                   atBatchStart, evaluated, candidate_data, api,
                   usedConfigs, sessions>>

\* The user cancels while the window is requested: the finally block of
\* mine_repositories runs _finalize_execution and the exception leaves.
RequestInterrupted ==
    /\ pc = "ensure"
    /\ LET rs == get_search_results(pd, get_config_hash(cfg))
       IN /\ CacheExhausted(start_index, rs)
          /\ StarsQuery(cfg.min_stars, NextCeiling(rs)) # <<>>
    /\ file' = pd
    /\ EndSession("interrupt")
    /\ UNCHANGED <<batches, final, pd, rejectedUnder, usedConfigs, sessions>>

\* Variant: the new window replaces the stored cache.
MergeResult_windowOnly(p, rs, got, h) ==
    IF UniqueNew(rs, got) = <<>> THEN p
    ELSE save_search_results(p, UniqueNew(rs, got), h)

\* Variant: the merged list is saved also when the window brought nothing new.
MergeResult_alwaysSave(p, rs, got, h) ==
    save_search_results(p, rs \o UniqueNew(rs, got), h)

\* The merge of _ensure_sufficient_repo_cache after the window got came back,
\* rs being the list get_search_results returned: the new progress_data.
\* repos is the list object stored in progress_data when the stored cache
\* was returned, so repos.extend has already changed search_results when
\* save_search_results reads it.
MergeResult(p, rs, got, h) ==
    LET unique_new == UniqueNew(rs, got)
        extended == rs \o unique_new
        aliased == IF rs # <<>> THEN [p EXCEPT !.search_results = extended] ELSE p
    IN IF got = <<>> \/ unique_new = <<>>
       THEN p
       ELSE save_search_results(aliased, extended, h)

\* _ensure_sufficient_repo_cache from the return of the strategy on: the
\* merge; save_search_results writes the progress file when the cache grew.
MergeWindow ==
    /\ pc = "merge"
    /\ LET p == MergeResult(pd, repos, new_repos, get_config_hash(cfg))
           unique_new == UniqueNew(repos, new_repos)
       IN AfterEnsure(p, IF unique_new = <<>> THEN file ELSE p, repos \o unique_new)
    /\ UNCHANGED <<batches, final, rejectedUnder, usedConfigs, sessions>>

\* _process_repository up to the latency check: the services return the
\* pull-request data and, when there is some, the average issue close time.
FetchCandidateData ==
    /\ pc = "batch"
    /\ start_index + i < Min2(start_index + BATCH_SIZE, Len(repos))
    /\ candidate_data = <<>>
    /\ \E prs \in PrInputs, durations \in IssueInputs :
          candidate_data' =
              <<[prs_data |-> prs,
                 avg_days |-> IF prs = <<>> THEN NoAverage
                              ELSE get_avg_issue_close_time(durations)]>>
    /\ UNCHANGED <<file, batches, final, pd, pc, cfg, start_index, repos, i,
                   batch_accepted_data, query, new_repos, exit, rejectedUnder,
                   atBatchStart, evaluated, flushedAtStart, usedConfigs, sessions,
                   api>>

\* _process_batch, one iteration of the loop: the candidate at cache index
\* start_index + i is evaluated (accepted or not) and update_progress is
\* called; it writes the file when total_processed is a multiple of 5.
Evaluate(accepted) ==
    /\ pc = "batch"
    /\ start_index + i < Min2(start_index + BATCH_SIZE, Len(repos))
    /\ candidate_data # <<>>
    /\ accepted = _process_repository(candidate_data[1].prs_data,
                                      candidate_data[1].avg_days)
    /\ candidate_data' = <<>>
    /\ UNCHANGED api
    /\ LET current_index == start_index + i
           repo_json == repos[current_index + 1]
           p == update_progress(pd,
                                IF accepted THEN <<repo_json.full_name>> ELSE <<>>,
                                IF accepted THEN <<>> ELSE <<repo_json.full_name>>,
                                current_index + 1)
       IN /\ pd' = p
          /\ file' = IF PeriodicSave(p) THEN p ELSE file
          /\ batch_accepted_data' =
                IF accepted THEN Append(batch_accepted_data, repo_json.full_name)
                ELSE batch_accepted_data
          /\ i' = i + 1
          /\ rejectedUnder' =
                IF accepted THEN rejectedUnder
                ELSE rejectedUnder \cup {<<get_config_hash(cfg), repo_json.full_name>>}
          /\ evaluated' = Append(evaluated, <<current_index, accepted>>)
    /\ UNCHANGED <<batches, final, pc, cfg, start_index, repos, query,
                   new_repos, exit, flushedAtStart, atBatchStart, usedConfigs,
                   sessions>>

\* Variant: the exception leaves without the finally block.
EvaluateRaises_noFinally(how) ==
    /\ pc = "batch"
    /\ start_index + i < Min2(start_index + BATCH_SIZE, Len(repos))
    /\ EndSession(how)
    /\ UNCHANGED <<file, batches, final, pd, rejectedUnder, usedConfigs, sessions>>

\* _process_repository raises (how = "error") or the user cancels (how =
\* "interrupt") while a candidate is evaluated: the finally block of
\* mine_repositories runs _finalize_execution and the exception leaves.
EvaluateRaises(how) ==
    /\ pc = "batch"
    /\ start_index + i < Min2(start_index + BATCH_SIZE, Len(repos))
    /\ file' = pd
    /\ EndSession(how)
    /\ UNCHANGED <<batches, final, pd, rejectedUnder, usedConfigs, sessions>>

\* The batch files after _save_batch_results wrote data as batch k.
WriteBatch(b, k, data) ==
    [x \in DOMAIN b \cup {k} |-> IF x = k THEN data ELSE b[x]]

\* _process_batch after the loop: _save_batch_results, _show_next_steps
\* (which consolidates when the target is reached), then the finally block.
BatchComplete ==
    /\ pc = "batch"
    /\ start_index + i = Min2(start_index + BATCH_SIZE, Len(repos))
    /\ LET written == WriteBatch(batches, batch_number(start_index), batch_accepted_data)
       IN IF pd.total_processed < TOTAL_TARGET_REPOS
          THEN /\ batches' = written
               /\ final' = final
          ELSE /\ batches' = SaveFinalBatches(written)
               /\ final' = SaveFinalFile(written, final)
    /\ file' = pd
    /\ EndSession("normal")
    /\ UNCHANGED <<pd, rejectedUnder, usedConfigs, sessions>>

\* The process is killed (no finally block runs): the volatile state is
\* gone, the files stay as last written.
Kill ==
    /\ pc # "idle"
    /\ pd' = file
    /\ EndSession("killed")
    /\ UNCHANGED <<file, batches, final, rejectedUnder, usedConfigs, sessions>>

Next ==
    \/ \E c \in Configs : SessionTargetReached(c)
    \/ \E c \in Configs : SessionBegin(c)
    \/ CacheSufficient
    \/ CacheNoRequest
    \/ RequestWindow
    \/ RequestInterrupted
    \/ MergeWindow
    \/ FetchCandidateData
    \/ \E accepted \in BOOLEAN : Evaluate(accepted)
    \/ \E how \in {"error", "interrupt"} : EvaluateRaises(how)
    \/ BatchComplete
    \/ Kill

Spec == Init /\ [][Next]_vars

(***************************************************************************)
(* FlushSpec: update_progress over long runs.  TOTAL_TARGET_REPOS and      *)
(* BATCH_SIZE are far above SaveEvery in a default configuration (1000 and *)
(* 200), so that one session accepts more than SaveEvery candidates; here  *)
(* the loop of _process_batch is followed over a cache long enough for     *)
(* MaxAccepted accepted and MaxRejected rejected candidates, the cache and *)
(* the artifacts left out.  The candidate at cache index k has the         *)
(* identity ToString(k).                                                   *)
(***************************************************************************)
FlushInit == Init

\* One iteration of the loop of _process_batch (the first one starts the
\* session): the candidate at last_index is evaluated, update_progress is
\* called and writes the file when PeriodicSave holds.
FlushUpdate(accepted) ==
    /\ IF accepted THEN pd.total_processed < MaxAccepted
                   ELSE Len(pd.rejected_repos) < MaxRejected
    /\ LET name == ToString(pd.last_index)
           p == update_progress(pd,
                                IF accepted THEN <<name>> ELSE <<>>,
                                IF accepted THEN <<>> ELSE <<name>>,
                                pd.last_index + 1)
       IN /\ pd' = p
          /\ file' = IF PeriodicSave(p) THEN p ELSE file
    /\ pc' = "batch"
    /\ UNCHANGED <<batches, final, cfg, start_index, repos, i,
                   batch_accepted_data, query, new_repos, exit, rejectedUnder,
                   candidate_data, api, atBatchStart, evaluated, flushedAtStart,
                   usedConfigs, sessions>>

\* The session ends through _finalize_execution: the progress is saved.
FlushFinalize ==
    /\ pc = "batch"
    /\ file' = pd
    /\ pc' = "idle"
    /\ UNCHANGED <<batches, final, pd, cfg, start_index, repos, i,
                   batch_accepted_data, query, new_repos, exit, rejectedUnder,
                   candidate_data, api, atBatchStart, evaluated, flushedAtStart,
                   usedConfigs, sessions>>

\* The process is killed: the next session loads the file as last written.
FlushKill ==
    /\ pc = "batch"
    /\ pd' = file
    /\ pc' = "idle"
    /\ UNCHANGED <<file, batches, final, cfg, start_index, repos, i,
                   batch_accepted_data, query, new_repos, exit, rejectedUnder,
                   candidate_data, api, atBatchStart, evaluated, flushedAtStart,
                   usedConfigs, sessions>>

FlushNext ==
    \/ \E accepted \in BOOLEAN : FlushUpdate(accepted)
    \/ FlushFinalize
    \/ FlushKill

FlushSpec == FlushInit /\ [][FlushNext]_vars

(***************************************************************************)
(* post_processing.py.  ConsolidateSpec: DataProcessor._consolidate_batches *)
(* over a batch directory.  A record is [name, written], written being the *)
(* number of the batch file it was written to (a later batch file is       *)
(* written later).                                                         *)
(***************************************************************************)
BatchFileContents(k) ==
    LET recs == {[name |-> n, written |-> k] : n \in {"a", "b"}}
    IN UNION {[1 .. len -> recs] : len \in 0 .. MaxBatchLen}

BatchDirs ==
    UNION {{b \in [ks -> UNION {BatchFileContents(k) : k \in ks}] :
                \A k \in ks : b[k] \in BatchFileContents(k)} :
           ks \in SUBSET (1 .. MaxBatches)}

\* The "Remove duplicates" loop: a record is kept when its name was not seen.
RECURSIVE RemoveDuplicates(_, _, _)
RemoveDuplicates(all_repos, seen_names, unique_repos) ==
    IF all_repos = <<>> THEN unique_repos
    ELSE LET repo == Head(all_repos)
         IN IF repo.name \notin seen_names
            THEN RemoveDuplicates(Tail(all_repos), seen_names \cup {repo.name},
                                  Append(unique_repos, repo))
            ELSE RemoveDuplicates(Tail(all_repos), seen_names, unique_repos)

\* The list written to the final JSON file, the batch files read in the
\* order of their numbers.
_consolidate_batches(b) == RemoveDuplicates(ConcatBatches(b, DOMAIN b), {}, <<>>)

ConsolidateInit ==
    /\ batches \in BatchDirs
    /\ final = <<>>
    /\ file = _create_empty_progress
    /\ pd = _create_empty_progress
    /\ pc = "idle"
    /\ cfg = NoSession
    /\ start_index = 0
    /\ repos = <<>>
    /\ i = 0
    /\ batch_accepted_data = <<>>
    /\ query = <<>>
    /\ new_repos = <<>>
    /\ exit = "none"
    /\ rejectedUnder = {}
    /\ flushedAtStart = {}
    /\ atBatchStart = _create_empty_progress
    /\ candidate_data = <<>>
    /\ evaluated = <<>>
    /\ usedConfigs = {}
    /\ sessions = 0
    /\ api = NoCall

\* DataProcessor._consolidate_batches: nothing is written when there is no
\* batch file; the batch files stay.
ConsolidateBatches ==
    /\ final' = IF DOMAIN batches = {} THEN final ELSE _consolidate_batches(batches)
    /\ UNCHANGED <<file, batches, pd, pc, cfg, start_index, repos, i,
                   batch_accepted_data, query, new_repos, exit, rejectedUnder,
                   candidate_data, api, atBatchStart, evaluated, flushedAtStart,
                   usedConfigs, sessions>>

ConsolidateNext == ConsolidateBatches

ConsolidateSpec == ConsolidateInit /\ [][ConsolidateNext]_vars

(***************************************************************************)
(* GitHubAPIService.make_request, called over and over by the services.    *)
(* api.phase is the position of the innermost make_request frame, and      *)
(* api.depth the number of nested make_request frames.  The cache file     *)
(* and the pacing sleeps of _check_rate_limit are left out.                *)
(***************************************************************************)
minerVars == <<file, batches, final, pd, pc, cfg, start_index, repos, i,
               batch_accepted_data, query, new_repos, exit, rejectedUnder,
               candidate_data, atBatchStart, evaluated, flushedAtStart,
               usedConfigs, sessions>>

RequestInit == Init

\* A service calls make_request(url, params, use_cache).
MakeRequest(url, params, use_cache) ==
    /\ api.phase \in {"idle", "returned"}
    /\ api' = [api EXCEPT !.phase = "entered", !.url = url, !.params = params,
                          !.use_cache = use_cache, !.depth = 1,
                          !.response = NoResponse, !.result = None]
    /\ UNCHANGED minerVars

CacheHit == api.use_cache /\ _get_cache_key(api.url, api.params) \in DOMAIN api.cache

\* The cached answer is returned as a response with status 200.
ReturnCached ==
    /\ api.phase = "entered"
    /\ CacheHit
    /\ api' = [api EXCEPT !.phase = "returned", !.depth = 0,
                          !.result =
                              <<cached_response(
                                    api.cache[_get_cache_key(api.url, api.params)])>>]
    /\ UNCHANGED minerVars

\* requests.get answers; an upstream that stopped rate limiting answers
\* with no rate-limit response.
RequestsGet(response) ==
    /\ api.phase = "entered"
    /\ ~CacheHit
    /\ api.throttling \/ ~RateLimited(response)
    /\ api' = [api EXCEPT !.phase = "responded", !.response = response]
    /\ UNCHANGED minerVars

\* requests.get raises: except Exception, sleep, return None.
RequestRaises ==
    /\ api.phase = "entered"
    /\ ~CacheHit
    /\ api' = [api EXCEPT !.phase = "returned", !.depth = 0,
                          !.response = RequestFailed, !.result = None]
    /\ UNCHANGED minerVars

\* Status 403 with no remaining quota, or status 429: time.sleep.
SleepOnRateLimit ==
    /\ api.phase = "responded"
    /\ RateLimited(api.response)
    /\ api' = [api EXCEPT !.phase = "sleeping"]
    /\ UNCHANGED minerVars

\* return self.make_request(url, params, use_cache): one more frame.
Reissue ==
    /\ api.phase = "sleeping"
    /\ api.depth < RecursionLimit
    /\ api' = [api EXCEPT !.phase = "entered", !.depth = api.depth + 1,
                          !.response = NoResponse]
    /\ UNCHANGED minerVars

\* The nested call cannot be made: RecursionError is raised inside the try
\* block, caught by except Exception, and None goes back through every
\* frame to the caller.
ReissueRaisesRecursionError ==
    /\ api.phase = "sleeping"
    /\ api.depth = RecursionLimit
    /\ api' = [api EXCEPT !.phase = "returned", !.depth = 0,
                          !.result = None]
    /\ UNCHANGED minerVars

\* Any other response: cached when it is a 200 and use_cache, then returned
\* through every frame.
ReturnResponse ==
    /\ api.phase = "responded"
    /\ ~RateLimited(api.response)
    /\ api' = [api EXCEPT
                 !.phase = "returned", !.depth = 0,
                 !.result = <<api.response>>,
                 !.cache = IF api.use_cache /\ api.response.status_code = 200
                           THEN CachePut(api.cache,
                                         _get_cache_key(api.url, api.params),
                                         api.response.body)
                           ELSE api.cache,
                 !.answered = IF api.use_cache /\ api.response.status_code = 200
                              THEN api.answered \cup
                                       {<<api.url, Range(api.params),
                                          api.response.body>>}
                              ELSE api.answered]
    /\ UNCHANGED minerVars

\* The upstream stops answering with rate-limit responses.
UpstreamRecovers ==
    /\ api.throttling
    /\ api' = [api EXCEPT !.throttling = FALSE]
    /\ UNCHANGED minerVars

\* The steps make_request itself takes, once called.
RequestStep ==
    \/ ReturnCached
    \/ \E response \in Responses : RequestsGet(response)
    \/ RequestRaises
    \/ SleepOnRateLimit
    \/ Reissue
    \/ ReissueRaisesRecursionError
    \/ ReturnResponse

RequestNext ==
    \/ \E url \in Urls, params \in Params, use_cache \in BOOLEAN :
          MakeRequest(url, params, use_cache)
    \/ ReturnCached
    \/ \E response \in Responses : RequestsGet(response)
    \/ RequestRaises
    \/ SleepOnRateLimit
    \/ Reissue
    \/ ReissueRaisesRecursionError
    \/ ReturnResponse
    \/ UpstreamRecovers

RequestSpec == RequestInit /\ [][RequestNext]_vars

\* Every sleep ends and every started step completes; the upstream
\* eventually stops rate limiting.
RequestFairSpec ==
    /\ RequestInit
    /\ [][RequestNext]_vars
    /\ WF_vars(RequestStep)
    /\ WF_vars(UpstreamRecovers)

(***************************************************************************)
(* GitHubMiner._process_repository over the services: one batch whose      *)
(* candidates are evaluated fetch by fetch, every fetch a make_request     *)
(* call of the model above.  candidate_data holds the locals of            *)
(* _process_repository and of the service method running.                  *)
(***************************************************************************)
MAX_ISSUE_PAGES == 2

\* The lists the upstream answers with, by endpoint: open pull requests,
\* commits, closed issues (their close durations in days), languages.
UpstreamBodies(url) ==
    CASE url[1] = "pulls" -> {<<>>, <<1>>, <<2, 1>>}
      [] url[1] = "issues" -> IssueInputs
      [] url[1] = "issues_next" -> IssueInputs
      [] OTHER -> {<<>>, <<1>>}

\* get_json_response: the body of a 200 response, <<body>>, or None.
get_json_response(response) ==
    IF response # None /\ response[1].status_code = 200
    THEN <<response[1].body>>
    ELSE None

\* Python's "not data" for what get_json_response returned.
Not(data) == data = None \/ data[1] = <<>>

\* The request of the fetch the pipeline is at.
StageUrl(c, name) ==
    CASE c.stage = "pulls" -> <<"pulls", name>>
      [] c.stage = "pr_commits" -> <<"pr_commits", name, c.prs[1]>>
      [] c.stage = "base_commit" -> <<"commits", name>>
      [] c.stage = "issues" -> c.url
      [] c.stage = "issue_links" -> c.url
      [] OTHER -> <<"languages", name>>

StageParams(c) ==
    CASE c.stage = "pulls" -> <<<<"state", "open">>, <<"per_page", "5">>>>
      [] c.stage = "base_commit" ->
            <<<<"sha", "base">>, <<"until", ToString(c.prs[1])>>,
              <<"per_page", "1">>>>
      [] c.stage = "issues" -> c.params
      [] c.stage = "issue_links" -> c.params
      [] OTHER -> <<>>

\* The locals when _process_repository is entered for the candidate name.
\* surfaced is history: a fetch got the None of a request that raised;
\* fetched is history: the endpoints fetched for the candidate so far;
\* listed is history: the pull requests as the upstream listed them;
\* linked is history: the upstream answered the last page of closed issues
\* with a link to a next page.
PipelineStart(name) ==
    [stage |-> "pulls", prs |-> <<>>, prs_data |-> <<>>,
     pr_commits_data |-> <<>>, listed |-> <<>>, linked |-> FALSE,
     url |-> <<"issues", name>>,
     params |-> <<<<"state", "closed">>, <<"per_page", "100">>>>,
     page |-> 0, durations |-> <<>>, avg_days |-> NoAverage,
     languages |-> None, surfaced |-> FALSE, fetched |-> {}]

\* get_pr_comparison_data after one pull request of the loop is done: the
\* next one, or the return to _process_repository and its "if not prs_data".
NextPullRequest(c, prs_data) ==
    IF Len(c.prs) > 1
    THEN [c EXCEPT !.stage = "pr_commits", !.prs = Tail(c.prs),
                   !.prs_data = prs_data]
    ELSE [c EXCEPT !.stage = IF prs_data = <<>> THEN "done" ELSE "issues",
                   !.prs = <<>>, !.prs_data = prs_data]

\* Variant: the languages are fetched whatever the average.
AfterIssuePages_noShortCircuit(c) ==
    [c EXCEPT !.avg_days = get_avg_issue_close_time(c.durations),
              !.stage = "languages"]

\* get_avg_issue_close_time after its page loop, then the checks of
\* _process_repository on avg_days.
AfterIssuePages(c) ==
    LET avg_days == get_avg_issue_close_time(c.durations)
    IN [c EXCEPT !.avg_days = avg_days,
                 !.stage = IF avg_days = NoAverage
                              \/ AverageAtLeast(avg_days, MAX_ISSUE_CLOSE_DAYS)
                           THEN "done" ELSE "languages"]

PipelineInit ==
    LET c == [min_stars |-> 0]
        rs == <<Candidate("a", get_config_hash(c)), Candidate("b", get_config_hash(c))>>
        p == save_search_results(_create_empty_progress, rs, get_config_hash(c))
    IN /\ file = p
       /\ batches = <<>>
       /\ final = <<>>
       /\ pd = p
       /\ pc = "batch"
       /\ cfg = c
       /\ start_index = 0
       /\ repos = rs
       /\ i = 0
       /\ batch_accepted_data = <<>>
       /\ query = <<>>
       /\ new_repos = <<>>
       /\ exit = "none"
       /\ rejectedUnder = {}
       /\ flushedAtStart = {}
       /\ atBatchStart = p
       /\ candidate_data = <<>>
       /\ evaluated = <<>>
       /\ usedConfigs = {get_config_hash(c)}
       /\ sessions = 1
       /\ api = NoCall

pipelineRest == <<file, batches, final, pd, pc, cfg, start_index, repos, i,
                  batch_accepted_data, query, new_repos, exit, rejectedUnder,
                  atBatchStart, evaluated, flushedAtStart, usedConfigs,
                  sessions>>

CandidateName == repos[start_index + i + 1].full_name

\* _process_batch calls _process_repository(repo_json).
ProcessRepository ==
    /\ pc = "batch"
    /\ start_index + i < Min2(start_index + BATCH_SIZE, Len(repos))
    /\ candidate_data = <<>>
    /\ candidate_data' = <<PipelineStart(CandidateName)>>
    /\ UNCHANGED <<pipelineRest, api>>

\* The service method running calls get_json_response / make_request.
Fetch ==
    /\ pc = "batch"
    /\ candidate_data # <<>>
    /\ candidate_data[1].stage # "done"
    /\ api.phase = "idle"
    /\ MakeRequest(StageUrl(candidate_data[1], CandidateName),
                   StageParams(candidate_data[1]), TRUE)

\* requests.get answers the fetch.
FetchAnswered ==
    /\ api.phase = "entered"
    /\ \E response \in ResponsesWith(UpstreamBodies(api.url), BOOLEAN) :
          RequestsGet(response)

\* make_request has returned to the service method at stage st.
Returned(st) ==
    /\ pc = "batch"
    /\ candidate_data # <<>>
    /\ candidate_data[1].stage = st
    /\ api.phase = "returned"

\* The locals c once the fetch result has been looked at.
Take(c) ==
    /\ candidate_data' =
          <<[c EXCEPT !.surfaced =
                @ \/ (api.result = None /\ api.response = RequestFailed),
                      !.fetched = @ \cup {api.url[1]}]>>
    /\ api' = [api EXCEPT !.phase = "idle"]
    /\ UNCHANGED pipelineRest

\* get_pr_comparison_data: prs = get_json_response(url, params).
TakePulls ==
    /\ Returned("pulls")
    /\ LET c == candidate_data[1]
           prs == get_json_response(api.result)
       IN Take(IF Not(prs) THEN [c EXCEPT !.stage = "done"]
               ELSE [c EXCEPT !.stage = "pr_commits", !.prs = prs[1],
                              !.listed = prs[1]])

\* Variant: a pull request without commits is not skipped.
TakePrCommits_keepEmpty ==
    /\ Returned("pr_commits")
    /\ LET c == candidate_data[1]
           pr_commits_data == get_json_response(api.result)
       IN Take([c EXCEPT !.stage = "base_commit",
                         !.pr_commits_data =
                             IF pr_commits_data = None THEN <<>>
                             ELSE pr_commits_data[1]])

\* pr_commits_data = get_json_response(pr['commits_url']).
TakePrCommits ==
    /\ Returned("pr_commits")
    /\ LET c == candidate_data[1]
           pr_commits_data == get_json_response(api.result)
       IN Take(IF Not(pr_commits_data) THEN NextPullRequest(c, c.prs_data)
               ELSE [c EXCEPT !.stage = "base_commit",
                              !.pr_commits_data = pr_commits_data[1]])

\* _get_commit_before_date, then "if base_commit: prs_data.append(pr_data)".
TakeBaseCommit ==
    /\ Returned("base_commit")
    /\ LET c == candidate_data[1]
           commits == get_json_response(api.result)
       IN Take(IF Not(commits) THEN NextPullRequest(c, c.prs_data)
               ELSE NextPullRequest(c, Append(c.prs_data,
                                              [pr_number |-> c.prs[1],
                                               commits |-> c.pr_commits_data,
                                               base_commit |-> <<commits[1][1]>>])))

\* get_avg_issue_close_time: data = get_json_response(url, params).
TakeIssues ==
    /\ Returned("issues")
    /\ LET c == candidate_data[1]
           data == get_json_response(api.result)
       IN Take(IF Not(data) THEN AfterIssuePages(c)
               ELSE [c EXCEPT !.stage = "issue_links",
                              !.durations = @ \o data[1],
                              !.linked = api.response.status_code = 200
                                             /\ api.response.next])

\* response = self.make_request(url, params); the next page when the
\* response has a next link and the page range is not used up.
TakeIssueLinks ==
    /\ Returned("issue_links")
    /\ LET c == candidate_data[1]
           response == api.result
       IN Take(IF response # None /\ response[1].next
                     /\ c.page + 1 < MAX_ISSUE_PAGES
               THEN [c EXCEPT !.stage = "issues", !.page = @ + 1,
                              !.url = <<"issues_next", CandidateName, c.page + 1>>,
                              !.params = <<>>]
               ELSE AfterIssuePages(c))

\* languages = get_repository_languages(...); the RepositoryData is built
\* whatever came back.
TakeLanguages ==
    /\ Returned("languages")
    /\ LET c == candidate_data[1]
       IN Take([c EXCEPT !.stage = "done",
                         !.languages = get_json_response(api.result)])

\* _process_repository has returned: the rest of the loop body.
PipelineEvaluate ==
    /\ candidate_data # <<>>
    /\ candidate_data[1].stage = "done"
    /\ \E accepted \in BOOLEAN : Evaluate(accepted)

PipelineNext ==
    \/ ProcessRepository
    \/ Fetch
    \/ ReturnCached
    \/ FetchAnswered
    \/ RequestRaises
    \/ SleepOnRateLimit
    \/ Reissue
    \/ ReissueRaisesRecursionError
    \/ ReturnResponse
    \/ TakePulls
    \/ TakePrCommits
    \/ TakeBaseCommit
    \/ TakeIssues
    \/ TakeIssueLinks
    \/ TakeLanguages
    \/ PipelineEvaluate
    \/ BatchComplete

PipelineSpec == PipelineInit /\ [][PipelineNext]_vars

(***************************************************************************)
(* The three services of a GitHubMiner over the one cache file             *)
(* .data/api_cache.json.  In this specification api is                     *)
(* [phase, services, cache_file, cached]: the three service objects (cache *)
(* and request_count each), the keys in the cache file, and, as history,   *)
(* the keys cached by the session running or by the last one.              *)
(***************************************************************************)
ServiceNames == {"repo_service", "issue_service", "pr_service"}

\* The key of a request of each service.
KeyOf(service) ==
    CASE service = "repo_service" -> "languages"
      [] service = "issue_service" -> "issues"
      [] OTHER -> "pulls"

\* Save cache every 10 requests.
CacheSaveEvery == 10

\* Requests of one service in one session.
MaxRequests == 10

CacheInit ==
    /\ file = _create_empty_progress
    /\ batches = <<>>
    /\ final = <<>>
    /\ pd = _create_empty_progress
    /\ pc = "idle"
    /\ cfg = NoSession
    /\ start_index = 0
    /\ repos = <<>>
    /\ i = 0
    /\ batch_accepted_data = <<>>
    /\ query = <<>>
    /\ new_repos = <<>>
    /\ exit = "none"
    /\ rejectedUnder = {}
    /\ flushedAtStart = {}
    /\ atBatchStart = _create_empty_progress
    /\ candidate_data = <<>>
    /\ evaluated = <<>>
    /\ usedConfigs = {}
    /\ sessions = 0
    /\ api = [phase |-> "idle",
              services |-> [s \in ServiceNames |-> [cache |-> {}, request_count |-> 0]],
              cache_file |-> {}, cached |-> {}]

\* GitHubMiner.__init__: each service loads the cache file.
CacheSessionStart ==
    /\ api.phase = "idle"
    /\ sessions < MaxSessions
    /\ sessions' = sessions + 1
    /\ api' = [api EXCEPT
                 !.phase = "running",
                 !.services = [s \in ServiceNames |->
                                  [cache |-> api.cache_file, request_count |-> 0]],
                 !.cached = {}]
    /\ UNCHANGED <<file, batches, final, pd, pc, cfg, start_index, repos, i,
                   batch_accepted_data, query, new_repos, exit, rejectedUnder,
                   candidate_data, atBatchStart, evaluated, flushedAtStart,
                   usedConfigs>>

\* make_request of one service goes upstream (no cache hit); ok says that
\* the response is a 200.  A 200 response is cached, and the cache of this
\* service is written to the file when its request_count is a multiple of 10.
CacheRequest(service, ok) ==
    /\ api.phase = "running"
    /\ KeyOf(service) \notin api.services[service].cache
    /\ api.services[service].request_count < MaxRequests
    /\ LET request_count == api.services[service].request_count + 1
           cache == IF ok THEN api.services[service].cache \cup {KeyOf(service)}
                    ELSE api.services[service].cache
       IN api' = [api EXCEPT
                    !.services[service] =
                        [cache |-> cache, request_count |-> request_count],
                    !.cache_file =
                        IF ok /\ request_count % CacheSaveEvery = 0
                        THEN cache ELSE @,
                    !.cached = IF ok THEN @ \cup {KeyOf(service)} ELSE @]
    /\ UNCHANGED minerVars

\* _finalize_execution: self.repo_service.finalize() saves the cache of the
\* repository service; no other service is finalized.
CacheFinalizeFile(services) == services["repo_service"].cache

CacheSessionEnd ==
    /\ api.phase = "running"
    /\ api' = [api EXCEPT !.phase = "idle",
                          !.cache_file = CacheFinalizeFile(api.services)]
    /\ UNCHANGED minerVars

CacheNext ==
    \/ CacheSessionStart
    \/ \E service \in ServiceNames, ok \in BOOLEAN : CacheRequest(service, ok)
    \/ CacheSessionEnd

CacheSpec == CacheInit /\ [][CacheNext]_vars

(***************************************************************************)
(* The progress file as text: ProgressManager._save_progress writes        *)
(* json.dump(progress_data), _load_progress reads it with json.load.  In   *)
(* this specification file is [exists, readable, text, saved_from]: text   *)
(* is a JSON value [t, v], or a truncated one, and saved_from is history,  *)
(* <<progress_data>> of the write that produced the text while the text is *)
(* as written.                                                             *)
(***************************************************************************)
JsonNull == [t |-> "null", v |-> <<>>]

JsonBool(b) == [t |-> "bool", v |-> b]

JsonNumber(n) == [t |-> "number", v |-> n]

JsonString(str) == [t |-> "string", v |-> str]

JsonArray(items) == [t |-> "array", v |-> items]

\* members: a sequence of <<name, JSON value>>.
JsonObject(members) == [t |-> "object", v |-> members]

\* A file whose writer stopped before the end of the text.
Truncated(json) == [t |-> "truncated", v |-> json]

\* json.dump of a search result item (a dict of the API).
DumpCandidate(repo) ==
    JsonObject(<<<<"full_name", JsonString(repo.full_name)>>,
                 <<"stargazers_count", JsonNumber(repo.stargazers_count)>>,
                 <<"fetched_for", JsonString(repo.fetched_for)>>>>)

\* Variant: the search results are written as an empty list.
json_dump_withoutSearchResults(data) ==
    JsonObject(
      <<<<"total_processed", JsonNumber(data.total_processed)>>,
        <<"last_index", JsonNumber(data.last_index)>>,
        <<"processed_repos",
          JsonArray([k \in 1 .. Len(data.processed_repos) |->
                        JsonString(data.processed_repos[k])])>>,
        <<"rejected_repos",
          JsonArray([k \in 1 .. Len(data.rejected_repos) |->
                        JsonString(data.rejected_repos[k])])>>,
        <<"search_results", JsonArray(<<>>)>>,
        <<"config_hash",
          IF data.config_hash = NoHash THEN JsonNull
          ELSE JsonString(data.config_hash)>>,
        <<"cache_exhausted", JsonBool(data.cache_exhausted)>>>>)

\* json.dump(self.progress_data, f): ints become numbers, strings strings,
\* None null, booleans booleans, lists arrays and dicts objects, member by
\* member in the order of the dict.
json_dump(data) ==
    JsonObject(
      <<<<"total_processed", JsonNumber(data.total_processed)>>,
        <<"last_index", JsonNumber(data.last_index)>>,
        <<"processed_repos",
          JsonArray([k \in 1 .. Len(data.processed_repos) |->
                        JsonString(data.processed_repos[k])])>>,
        <<"rejected_repos",
          JsonArray([k \in 1 .. Len(data.rejected_repos) |->
                        JsonString(data.rejected_repos[k])])>>,
        <<"search_results",
          JsonArray([k \in 1 .. Len(data.search_results) |->
                        DumpCandidate(data.search_results[k])])>>,
        <<"config_hash",
          IF data.config_hash = NoHash THEN JsonNull
          ELSE JsonString(data.config_hash)>>,
        <<"cache_exhausted", JsonBool(data.cache_exhausted)>>>>)

\* The text is a complete JSON value.
RECURSIVE WellFormed(_)
WellFormed(json) ==
    CASE json.t = "truncated" -> FALSE
      [] json.t = "array" -> \A k \in 1 .. Len(json.v) : WellFormed(json.v[k])
      [] json.t = "object" -> \A k \in 1 .. Len(json.v) : WellFormed(json.v[k][2])
      [] OTHER -> TRUE

\* The Python value json.load builds: null is None, an array a list, an
\* object a dict (the last member of a name wins), the rest themselves.
RECURSIVE Decode(_)
Decode(json) ==
    CASE json.t = "null" -> NoHash
      [] json.t = "array" -> [k \in 1 .. Len(json.v) |-> Decode(json.v[k])]
      [] json.t = "object" ->
            [name \in {json.v[k][1] : k \in 1 .. Len(json.v)} |->
                LET last == CHOOSE k \in 1 .. Len(json.v) :
                               /\ json.v[k][1] = name
                               /\ \A m \in k + 1 .. Len(json.v) : json.v[m][1] # name
                IN Decode(json.v[last][2])]
      [] OTHER -> json.v

\* json.load(f): <<value>>, or <<>> when it raises JSONDecodeError.
json_load(text) == IF WellFormed(text) THEN <<Decode(text)>> ELSE <<>>

\* dict.get(name, default)
Get(data, name, default) == IF name \in DOMAIN data THEN data[name] ELSE default

\* Variant: no except clause, the exception of open or json.load leaves
\* _load_progress.
_load_progress_noExcept(f) ==
    IF f.exists
    THEN IF f.readable /\ json_load(f.text) # <<>> /\ f.text.t = "object"
         THEN json_load(f.text)
         ELSE <<>>
    ELSE <<_create_empty_progress>>

\* ProgressManager._load_progress: <<data>>, or <<>> when it raises.  The
\* data is the empty progress when there is no file, and when open,
\* json.load or data.get raises.
_load_progress(f) ==
    IF f.exists
    THEN IF f.readable /\ json_load(f.text) # <<>> /\ f.text.t = "object"
         THEN json_load(f.text)
         ELSE <<_create_empty_progress>>
    ELSE <<_create_empty_progress>>

\* The file _save_progress leaves.
Written(data) ==
    [exists |-> TRUE, readable |-> TRUE, text |-> json_dump(data),
     saved_from |-> <<data>>]

NoFile ==
    [exists |-> FALSE, readable |-> FALSE, text |-> JsonNull, saved_from |-> <<>>]

storeRest == <<batches, final, cfg, repos, i, batch_accepted_data, query,
               new_repos, exit, rejectedUnder, candidate_data, atBatchStart,
               evaluated, flushedAtStart, usedConfigs, api>>

StoreInit ==
    /\ file = NoFile
    /\ batches = <<>>
    /\ final = <<>>
    /\ pd = _create_empty_progress
    /\ pc = "idle"
    /\ cfg = NoSession
    /\ start_index = 0
    /\ repos = <<>>
    /\ i = 0
    /\ batch_accepted_data = <<>>
    /\ query = <<>>
    /\ new_repos = <<>>
    /\ exit = "none"
    /\ rejectedUnder = {}
    /\ flushedAtStart = {}
    /\ atBatchStart = _create_empty_progress
    /\ candidate_data = <<>>
    /\ evaluated = <<>>
    /\ usedConfigs = {}
    /\ sessions = 0
    /\ api = NoCall

\* ProgressManager(): progress_data = _load_progress().
StoreLoad ==
    /\ pc = "idle"
    /\ sessions < MaxSessions
    /\ sessions' = sessions + 1
    /\ IF _load_progress(file) = <<>>
       THEN pd' = pd /\ pc' = "raised"
       ELSE pd' = _load_progress(file)[1] /\ pc' = "loaded"
    /\ UNCHANGED <<file, start_index, storeRest>>

\* mine_repositories goes on from the loaded state.
StoreProceed ==
    /\ pc = "loaded"
    /\ pc' = "ensure"
    /\ start_index' = get_next_start_index(pd)
    /\ UNCHANGED <<file, pd, sessions, storeRest>>

\* save_search_results(repos, config_hash): the cache of a search is stored
\* and the file written.
StoreSearchResults(c) ==
    /\ pc = "ensure"
    /\ pd.search_results = <<>> \/ pd.config_hash # get_config_hash(c)
    /\ \E rs \in {<<Candidate("a", get_config_hash(c))>>,
                  <<Candidate("a", get_config_hash(c)),
                    Candidate("b", get_config_hash(c))>>} :
          /\ pd' = save_search_results(pd, rs, get_config_hash(c))
          /\ file' = Written(save_search_results(pd, rs, get_config_hash(c)))
    /\ UNCHANGED <<pc, start_index, sessions, storeRest>>

\* update_progress for one candidate; the file is written when
\* total_processed is a multiple of 5.
StoreUpdate(accepted) ==
    /\ pc = "ensure"
    /\ pd.last_index < Len(pd.search_results)
    /\ LET name == pd.search_results[pd.last_index + 1].full_name
           p == update_progress(pd,
                                IF accepted THEN <<name>> ELSE <<>>,
                                IF accepted THEN <<>> ELSE <<name>>,
                                pd.last_index + 1)
       IN /\ pd' = p
          /\ file' = IF PeriodicSave(p) THEN Written(p) ELSE file
    /\ UNCHANGED <<pc, start_index, sessions, storeRest>>

\* _finalize_execution: ProgressManager.finalize writes the file; the
\* process ends.
StoreFinalize ==
    /\ pc \in {"loaded", "ensure"}
    /\ file' = Written(pd)
    /\ pc' = "idle"
    /\ UNCHANGED <<pd, start_index, sessions, storeRest>>

\* Between two runs the file is damaged: made unreadable, cut short, or
\* replaced by JSON text that is not an object.
StoreDamage ==
    /\ pc = "idle"
    /\ file.exists
    /\ file.saved_from # <<>>
    /\ \/ file' = [file EXCEPT !.readable = FALSE, !.saved_from = <<>>]
       \/ file' = [file EXCEPT !.text = Truncated(file.text), !.saved_from = <<>>]
       \/ file' = [file EXCEPT !.text = JsonArray(<<>>), !.saved_from = <<>>]
    /\ UNCHANGED <<pd, pc, start_index, sessions, storeRest>>

StoreNext ==
    \/ StoreLoad
    \/ StoreProceed
    \/ \E c \in Configs : StoreSearchResults(c)
    \/ \E accepted \in BOOLEAN : StoreUpdate(accepted)
    \/ StoreFinalize
    \/ StoreDamage

StoreSpec == StoreInit /\ [][StoreNext]_vars

(***************************************************************************)
(* main.py run as the entry point (python main.py) over the files earlier  *)
(* runs left.  pc is the position of the process, exit how it ended and    *)
(* sessions the number of mine_repositories calls it made.                 *)
(***************************************************************************)
\* The names a module or package of src/ binds at import.  miners is a
\* directory without __init__.py; post_processing.py defines one class.
ModuleNames(module) ==
    CASE module = "miners" -> {}
      [] module = "post_processing" -> {"DataProcessor"}
      [] OTHER -> {}

\* "from module import name" succeeds.
ImportFrom(module, name) == name \in ModuleNames(module)

MainInit ==
    /\ batches \in BatchDirs
    /\ final = <<>>
    /\ file = _create_empty_progress
    /\ pd = _create_empty_progress
    /\ pc = "idle"
    /\ cfg = NoSession
    /\ start_index = 0
    /\ repos = <<>>
    /\ i = 0
    /\ batch_accepted_data = <<>>
    /\ query = <<>>
    /\ new_repos = <<>>
    /\ exit = "none"
    /\ rejectedUnder = {}
    /\ flushedAtStart = {}
    /\ atBatchStart = _create_empty_progress
    /\ candidate_data = <<>>
    /\ evaluated = <<>>
    /\ usedConfigs = {}
    /\ sessions = 0
    /\ api = NoCall

mainRest == <<file, batches, final, pd, cfg, start_index, repos, i,
              batch_accepted_data, query, new_repos, rejectedUnder,
              candidate_data, atBatchStart, evaluated, flushedAtStart,
              usedConfigs, sessions, api>>

\* python main.py: the interpreter starts executing the module.
MainStart ==
    /\ pc = "idle"
    /\ pc' = "imports"
    /\ UNCHANGED <<exit, mainRest>>

\* The two import statements at the top of main.py; main() is called under
\* "if __name__ == '__main__'" only when both have succeeded, otherwise the
\* ImportError ends the process.
MainImports ==
    /\ pc = "imports"
    /\ IF ImportFrom("miners", "GitHubMiner")
             /\ ImportFrom("post_processing", "PostProcessor")
       THEN pc' = "main" /\ exit' = exit
       ELSE pc' = "exited" /\ exit' = "ImportError"
    /\ UNCHANGED mainRest

MainNext ==
    \/ MainStart
    \/ MainImports

MainSpec == MainInit /\ [][MainNext]_vars

(***************************************************************************)
(* _search_repositories_paginated step by step: one window fetch of the    *)
(* repository service.  api is the running call: page_num the loop         *)
(* variable, all_repos the accumulated list, requested the page numbers    *)
(* sent upstream so far and received what get_json_response returned for   *)
(* each of them.                                                           *)
(***************************************************************************)
\* What get_json_response can return for one search page: None (no usable
\* response), a body without 'items', or a body whose 'items' holds at most
\* per_page repositories.
SearchPageItems ==
    UNION {[1 .. n -> {"a", "b"}] : n \in 0 .. REPOS_PER_PAGE}

SearchPages ==
    {[data |-> FALSE, has_items |-> FALSE, items |-> <<>>],
     [data |-> TRUE, has_items |-> FALSE, items |-> <<>>]}
        \cup {[data |-> TRUE, has_items |-> TRUE, items |-> its] :
                 its \in SearchPageItems}

\* "if not response_data or 'items' not in response_data"
NoItems(response_data) == ~response_data.data \/ ~response_data.has_items

\* Variant: a short page does not end the loop.
LastPage_ignored(page_repos) == FALSE

\* "if len(page_repos) < REPOS_PER_PAGE"
LastPage(page_repos) == Len(page_repos) < REPOS_PER_PAGE

SearchIdle ==
    [phase |-> "idle", page_num |-> 0, all_repos |-> <<>>,
     requested |-> <<>>, received |-> <<>>, result |-> <<>>]

SearchInit ==
    /\ batches = [n \in {} |-> n]
    /\ final = <<>>
    /\ file = _create_empty_progress
    /\ pd = _create_empty_progress
    /\ pc = "ensure"
    /\ cfg = NoSession
    /\ start_index = 0
    /\ repos = <<>>
    /\ i = 0
    /\ batch_accepted_data = <<>>
    /\ query = <<>>
    /\ new_repos = <<>>
    /\ exit = "none"
    /\ rejectedUnder = {}
    /\ flushedAtStart = {}
    /\ atBatchStart = _create_empty_progress
    /\ candidate_data = <<>>
    /\ evaluated = <<>>
    /\ usedConfigs = {}
    /\ sessions = 1
    /\ api = SearchIdle

searchRest == <<file, batches, final, pd, pc, cfg, start_index, repos, i,
                batch_accepted_data, query, new_repos, exit, rejectedUnder,
                candidate_data, atBatchStart, evaluated, flushedAtStart,
                usedConfigs, sessions>>

\* The call: all_repos = [] and the for loop starts at page 1.
SearchStart ==
    /\ api.phase = "idle"
    /\ api' = [SearchIdle EXCEPT !.phase = "loop", !.page_num = 1]
    /\ UNCHANGED searchRest

\* One iteration of "for page_num in range(1, 11)".
SearchPage ==
    /\ api.phase = "loop"
    /\ api.page_num <= MaxPages
    /\ \E response_data \in SearchPages :
          LET page_repos == response_data.items
              asked == [api EXCEPT
                           !.requested = Append(@, api.page_num),
                           !.received = Append(@, response_data)]
          IN api' =
                IF NoItems(response_data)
                THEN [asked EXCEPT !.phase = "after"]
                ELSE IF LastPage(page_repos)
                     THEN [asked EXCEPT !.all_repos = @ \o page_repos,
                                        !.phase = "after"]
                     ELSE [asked EXCEPT !.all_repos = @ \o page_repos,
                                        !.page_num = @ + 1]
    /\ UNCHANGED searchRest

\* range(1, 11) is exhausted after page 10.
SearchRangeExhausted ==
    /\ api.phase = "loop"
    /\ api.page_num > MaxPages
    /\ api' = [api EXCEPT !.phase = "after"]
    /\ UNCHANGED searchRest

\* "return all_repos"
SearchReturn ==
    /\ api.phase = "after"
    /\ api' = [api EXCEPT !.phase = "returned", !.result = api.all_repos]
    /\ UNCHANGED searchRest

SearchNext ==
    \/ SearchStart
    \/ SearchPage
    \/ SearchRangeExhausted
    \/ SearchReturn

SearchSpec == SearchInit /\ [][SearchNext]_vars

(***************************************************************************)
(* IssueService.get_avg_issue_close_time over the items of one page of     *)
(* closed issues, item by item, and the check _process_repository makes on *)
(* its result.  api is the running call: data the page, k the number of    *)
(* items the loop has looked at, total_seconds and count its sums (in      *)
(* days), result what was returned and accepted what _process_repository   *)
(* made of it.  Timestamps are days; an absent or empty one is <<>>.       *)
(***************************************************************************)
MaxIssues == 3

IssueItems ==
    [pull_request : BOOLEAN,
     created_at : {<<>>, <<0>>, <<2>>},
     closed_at : {<<>>, <<1>>, <<3>>}]

IssuePages == UNION {[1 .. n -> IssueItems] : n \in 0 .. MaxIssues}

\* Variant: an issue needs its closing date only, a missing creation date
\* counting as day 0.
HasBothTimestamps_closedOnly(issue) == issue.closed_at # <<>>

\* "if issue.get('created_at') and issue.get('closed_at')"
HasBothTimestamps(issue) == issue.created_at # <<>> /\ issue.closed_at # <<>>

\* fromisoformat of a timestamp, in days; day 0 stands for a missing one in
\* the variant only.
Day(timestamp) == IF timestamp = <<>> THEN 0 ELSE timestamp[1]

IssueIdle ==
    [phase |-> "idle", data |-> <<>>, k |-> 0, total_seconds |-> 0,
     count |-> 0, result |-> NoAverage, accepted |-> FALSE]

IssueInit ==
    /\ batches = [n \in {} |-> n]
    /\ final = <<>>
    /\ file = _create_empty_progress
    /\ pd = _create_empty_progress
    /\ pc = "batch"
    /\ cfg = NoSession
    /\ start_index = 0
    /\ repos = <<>>
    /\ i = 0
    /\ batch_accepted_data = <<>>
    /\ query = <<>>
    /\ new_repos = <<>>
    /\ exit = "none"
    /\ rejectedUnder = {}
    /\ flushedAtStart = {}
    /\ atBatchStart = _create_empty_progress
    /\ candidate_data = <<>>
    /\ evaluated = <<>>
    /\ usedConfigs = {}
    /\ sessions = 1
    /\ api = IssueIdle

issueRest == <<file, batches, final, pd, pc, cfg, start_index, repos, i,
               batch_accepted_data, query, new_repos, exit, rejectedUnder,
               candidate_data, atBatchStart, evaluated, flushedAtStart,
               usedConfigs, sessions>>

\* The call, up to the page get_json_response returned.
IssueCall ==
    /\ api.phase = "idle"
    /\ \E data \in IssuePages :
          api' = [IssueIdle EXCEPT !.phase = "loop", !.data = data]
    /\ UNCHANGED issueRest

\* "if 'pull_request' in issue: continue"
IssueSkipPullRequest ==
    /\ api.phase = "loop"
    /\ api.k < Len(api.data)
    /\ api.data[api.k + 1].pull_request
    /\ api' = [api EXCEPT !.k = @ + 1]
    /\ UNCHANGED issueRest

\* An issue without both dates is passed over.
IssueSkipUndated ==
    /\ api.phase = "loop"
    /\ api.k < Len(api.data)
    /\ ~api.data[api.k + 1].pull_request
    /\ ~HasBothTimestamps(api.data[api.k + 1])
    /\ api' = [api EXCEPT !.k = @ + 1]
    /\ UNCHANGED issueRest

\* duration = closed - created; total_seconds += duration; count += 1.
IssueAddDuration ==
    /\ api.phase = "loop"
    /\ api.k < Len(api.data)
    /\ ~api.data[api.k + 1].pull_request
    /\ HasBothTimestamps(api.data[api.k + 1])
    /\ LET issue == api.data[api.k + 1]
           duration == Day(issue.closed_at) - Day(issue.created_at)
       IN api' = [api EXCEPT !.k = @ + 1,
                             !.total_seconds = @ + duration,
                             !.count = @ + 1]
    /\ UNCHANGED issueRest

\* "if count == 0: return None", else the average.
IssueReturn ==
    /\ api.phase = "loop"
    /\ api.k = Len(api.data)
    /\ api' = [api EXCEPT
                  !.phase = "returned",
                  !.result = IF api.count = 0 THEN NoAverage
                             ELSE <<[total |-> api.total_seconds,
                                     count |-> api.count]>>]
    /\ UNCHANGED issueRest

\* _process_repository, which had PR data, looks at avg_days.
IssueChecked ==
    /\ api.phase = "returned"
    /\ api' = [api EXCEPT !.phase = "checked",
                          !.accepted = _process_repository(<<"pr">>, api.result)]
    /\ UNCHANGED issueRest

IssueNext ==
    \/ IssueCall
    \/ IssueSkipPullRequest
    \/ IssueSkipUndated
    \/ IssueAddDuration
    \/ IssueReturn
    \/ IssueChecked

IssueSpec == IssueInit /\ [][IssueNext]_vars

(***************************************************************************)
(* Properties.                                                             *)
(***************************************************************************)

NoDuplicates(s) == \A j, k \in 1 .. Len(s) : j # k => s[j] # s[k]

\* A step of the loop of _process_batch: one candidate is evaluated.
EvaluateStep == pc = "batch" /\ pc' = "batch" /\ i' = i + 1

\* The step in which the process is killed.
KillStep == pc # "idle" /\ pc' = "idle" /\ exit' = "killed"

\* The identity evaluated by an EvaluateStep.
EvaluatedName == repos[start_index + i + 1].full_name

\* C1: while all sessions ran with one configuration, the identities in
\* processed_repos only grow and none is there twice.
C1_AcceptedGrowOnceEach ==
    [][Cardinality(usedConfigs') <= 1 =>
          /\ Range(file.processed_repos) \subseteq Range(file'.processed_repos)
          /\ Range(pd.processed_repos) \subseteq Range(pd'.processed_repos)
             \/ pc' = "idle"
          /\ NoDuplicates(file'.processed_repos)
          /\ NoDuplicates(pd'.processed_repos)]_vars

\* C2: a session that follows an interrupted one (same configuration)
\* starts at the last_index of the progress file, evaluates only cache
\* positions at or above the flushed last_index, and never runs the pipeline
\* on an identity the progress file already held as accepted or rejected
\* when the session began.
C2_NoFlushedCandidateReevaluated ==
    [][/\ (pc = "idle" /\ pc' = "ensure" => start_index' = file.last_index)
       /\ (EvaluateStep => start_index + i >= file.last_index)
       /\ (/\ EvaluateStep
           /\ exit \in {"interrupt", "error", "killed"}
           /\ Cardinality(usedConfigs) <= 1
           => EvaluatedName \notin flushedAtStart)]_vars

\* C3: last_index never decreases, neither in the progress file nor in
\* memory, and what a session holds is never below what was flushed.
C3_LastIndexMonotonic ==
    [][/\ file'.last_index >= file.last_index
       /\ pd'.last_index >= file.last_index
       /\ (pc # "idle" /\ pc' # "idle" => pd'.last_index >= pd.last_index)]_vars

\* C3 witness: a later session resumed at a flushed index above 0 after the
\* cache was expanded past it.
C3_Witness ==
    /\ pc = "batch"
    /\ sessions >= 2
    /\ start_index > 0
    /\ file.last_index = start_index
    /\ i = 0
    /\ repos[Len(repos)].stargazers_count < repos[1].stargazers_count

\* C4: every candidate of the current cache below last_index is in
\* processed_repos or rejected_repos.
C4_CandidatesBelowIndexEvaluated ==
    \A j \in 1 .. Min2(pd.last_index, Len(pd.search_results)) :
        pd.search_results[j].full_name
            \in Range(pd.processed_repos) \cup Range(pd.rejected_repos)

\* C5: once a session has ended, every accepted record counted in the
\* progress file is in a batch artifact (or in the final file the batches
\* were consolidated into).
C5_AcceptedRecordsInSink ==
    pc = "idle" =>
        Range(file.processed_repos)
            \subseteq UNION {Range(batches[k]) : k \in DOMAIN batches} \cup Range(final)

\* C6: a session that writes a batch writes it under an identifier no
\* batch artifact of an earlier session has.
C6_BatchIdentifierFresh ==
    [][pc = "batch" /\ pc' = "idle" /\ exit' = "normal" =>
          batch_number(start_index) \notin DOMAIN batches]_vars

\* C7: with a non-empty cache whose last item has popularity p the window
\* requested is MIN_STARS <= stars <= p-1, with an empty cache it is
\* stars >= MIN_STARS, and exactly the returned items whose full_name is not
\* in the cache are appended.
C7_WindowBelowLastPopularity ==
    [][pc = "merge" =>
          /\ query = IF repos # <<>>
                     THEN <<[lo |-> cfg.min_stars,
                             hi |-> <<repos[Len(repos)].stargazers_count - 1>>]>>
                     ELSE <<[lo |-> cfg.min_stars, hi |-> NoCeiling]>>
          /\ (~KillStep /\ UniqueNew(repos, new_repos) # <<>> =>
                pd'.search_results = repos \o UniqueNew(repos, new_repos))
          /\ (UniqueNew(repos, new_repos) = <<>> =>
                pd'.search_results = pd.search_results)]_vars

\* The strategy answered the running session with nothing new: an empty
\* window (requested or not) or a window of known identities only.
NothingNew ==
    \/ pc = "merge" /\ UniqueNew(repos, new_repos) = <<>>
    \/ /\ pc = "ensure"
       /\ LET rs == get_search_results(pd, get_config_hash(cfg))
          IN start_index >= Len(rs) /\ StarsQuery(cfg.min_stars, NextCeiling(rs)) = <<>>

\* C8: when the strategy brings nothing new the session ends in its next
\* step, with no further request and no error, and the cache, last_index,
\* the accepted and the rejected list (in memory and in the file) and the
\* artifacts are as before.
C8_NothingNewEndsSession ==
    [][NothingNew =>
          /\ pc' = "idle"
          /\ exit' \in {"nothing", "killed"}
          /\ pd' = pd
          /\ file' = file
          /\ batches' = batches
          /\ final' = final]_vars

\* C8 witness: a session whose predecessor ended with nothing to do got a
\* non-empty window of known identities only.
C8_Witness ==
    /\ pc = "merge"
    /\ exit = "nothing"
    /\ sessions >= 2
    /\ new_repos # <<>>
    /\ UniqueNew(repos, new_repos) = <<>>

\* C9 as stated: a session never merges into or evaluates candidates fetched
\* under another hash than its own, and when it has run to its end (not
\* interrupted, not killed) the cache in the progress file holds only
\* candidates fetched under its hash.
C9_CacheOfCurrentConfiguration ==
    [][/\ (pc' \in {"merge", "batch"} =>
             \A j \in 1 .. Len(repos') : repos'[j].fetched_for = get_config_hash(cfg'))
       /\ (pc # "idle" /\ pc' = "idle" /\ exit' \in {"normal", "nothing"} =>
             \A j \in 1 .. Len(file'.search_results) :
                 file'.search_results[j].fetched_for = get_config_hash(cfg))]_vars

\* C9 amended: candidates of different configurations are never mixed: the
\* stored cache holds only candidates fetched under the stored hash, and the
\* list a session merges into and evaluates holds only candidates fetched
\* under the hash of the session's configuration.
C9_StaleCacheIgnored ==
    /\ \A j \in 1 .. Len(pd.search_results) :
          pd.search_results[j].fetched_for = pd.config_hash
    /\ \A j \in 1 .. Len(file.search_results) :
          file.search_results[j].fetched_for = file.config_hash
    /\ pc \in {"merge", "batch"} =>
          \A j \in 1 .. Len(repos) : repos[j].fetched_for = get_config_hash(cfg)

\* C9 witness: a session found a non-empty cache stored under another hash,
\* replaced it by the window it fetched and is evaluating that window.
C9_Witness ==
    /\ pc = "batch"
    /\ i > 0
    /\ pd.config_hash = get_config_hash(cfg)
    /\ \E r \in rejectedUnder : r[1] # get_config_hash(cfg)

\* What C10 says of one evaluation, the last clause apart: the candidate
\* evaluated is the next in cache order, last_index becomes its index + 1,
\* and its identity is appended to exactly one of the two lists.
EvaluationRecorded ==
    /\ start_index + i = pd.last_index
    /\ pd'.last_index = start_index + i + 1
    /\ \/ /\ pd'.processed_repos = Append(pd.processed_repos, EvaluatedName)
          /\ pd'.rejected_repos = pd.rejected_repos
       \/ /\ pd'.rejected_repos = Append(pd.rejected_repos, EvaluatedName)
          /\ pd'.processed_repos = pd.processed_repos

\* C10: the candidates of a batch are evaluated in cache order, last_index
\* becomes index + 1 whatever the outcome, the identity goes to one of the
\* two lists, and a candidate that was rejected is never evaluated again
\* under the same configuration.
C10_RejectedNeverEvaluatedAgain ==
    [][EvaluateStep =>
          /\ EvaluationRecorded
          /\ <<get_config_hash(cfg), EvaluatedName>> \notin rejectedUnder]_vars

\* The step in which _process_batch and the session end normally.
BatchCompleteStep == pc = "batch" /\ pc' = "idle" /\ exit' = "normal"

\* The identities at the cache indices of the evaluations in log whose
\* outcome is accepted.
RECURSIVE NamesWithOutcome(_, _, _)
NamesWithOutcome(rs, log, accepted) ==
    IF log = <<>> THEN <<>>
    ELSE (IF log[1][2] = accepted THEN <<rs[log[1][1] + 1].full_name>> ELSE <<>>)
             \o NamesWithOutcome(rs, Tail(log), accepted)

\* C11: a session that completes normally from resume index s over a cache
\* of length L > s has evaluated exactly the n = min(BATCH_SIZE, L - s)
\* candidates cache[s .. s+n-1], each once and in order; with k accepted,
\* total_processed grew by k, processed_repos by the k accepted and
\* rejected_repos by the n - k rejected identities, last_index is s + n.
C11_BatchEvaluatesSlice ==
    [][BatchCompleteStep =>
          LET s == start_index
              n == Min2(BATCH_SIZE, Len(repos) - s)
              k == Len(NamesWithOutcome(repos, evaluated, TRUE))
          IN /\ Len(repos) > s
             /\ atBatchStart.last_index = s
             /\ Len(evaluated) = n
             /\ \A j \in 1 .. n : evaluated[j][1] = s + j - 1
             /\ pd.total_processed = atBatchStart.total_processed + k
             /\ pd.processed_repos = atBatchStart.processed_repos
                    \o NamesWithOutcome(repos, evaluated, TRUE)
             /\ pd.rejected_repos = atBatchStart.rejected_repos
                    \o NamesWithOutcome(repos, evaluated, FALSE)
             /\ Len(pd.rejected_repos) = Len(atBatchStart.rejected_repos) + n - k
             /\ pd.last_index = s + n]_vars

\* C11 witness: a resumed session is at the end of a full batch in which
\* one candidate passed and one was rejected.
C11_Witness ==
    /\ pc = "batch"
    /\ start_index > 0
    /\ i = BATCH_SIZE
    /\ Len(batch_accepted_data) = 1
    /\ Len(pd.rejected_repos) = Len(atBatchStart.rejected_repos) + 1

\* C12: a session started with total_processed >= TOTAL_TARGET_REPOS ends at
\* once: it never reaches the cache check or a batch (no request, no
\* evaluation), progress_data is the progress file and the file is as
\* before; it leaves no batch file, and with no batch file to consolidate it
\* leaves the final file as it is, so further runs never change it.
C12_TargetReachedIdempotent ==
    [][pc = "idle" /\ file.total_processed >= TOTAL_TARGET_REPOS =>
          /\ pc' = "idle"
          /\ exit' = "target"
          /\ pd' = file
          /\ file' = file
          /\ query' = <<>>
          /\ evaluated' = <<>>
          /\ batches' = <<>>
          /\ (batches = <<>> => final' = final)]_vars

\* C12 witness: a session has found the target reached and the final file
\* in place.
C12_Witness ==
    /\ pc = "idle"
    /\ exit = "target"
    /\ file.total_processed >= TOTAL_TARGET_REPOS
    /\ batches = <<>>
    /\ final # <<>>

\* C13: a candidate with pull-request data whose average issue close time is
\* exactly MAX_ISSUE_CLOSE_DAYS is rejected, and a candidate is accepted
\* only with an average strictly below the maximum.
C13_BoundaryAverageRejected ==
    [][EvaluateStep =>
          LET prs_data == candidate_data[1].prs_data
              avg_days == candidate_data[1].avg_days
              accepted == pd'.total_processed = pd.total_processed + 1
          IN /\ (/\ prs_data # <<>>
                 /\ avg_days # NoAverage
                 /\ avg_days[1].total = MAX_ISSUE_CLOSE_DAYS * avg_days[1].count
                 => ~accepted /\ pd'.rejected_repos = Append(pd.rejected_repos, EvaluatedName))
             /\ (accepted =>
                    /\ avg_days # NoAverage
                    /\ avg_days[1].total < MAX_ISSUE_CLOSE_DAYS * avg_days[1].count)]_vars

\* C13 witness: the candidate at hand has pull-request data and two closed
\* issues whose mean close time is exactly the maximum.
C13_Witness ==
    /\ pc = "batch"
    /\ candidate_data # <<>>
    /\ candidate_data[1].prs_data # <<>>
    /\ candidate_data[1].avg_days # NoAverage
    /\ candidate_data[1].avg_days[1].count = 2
    /\ candidate_data[1].avg_days[1].total = MAX_ISSUE_CLOSE_DAYS * 2

\* C14: the accepted items recorded in progress_data and not in the progress
\* file are never more than 4, and an update that brings the accepted total
\* to a multiple of 5 writes the file.
C14_AtMostFourUnflushed ==
    [][/\ pd'.total_processed - file'.total_processed <= SaveEvery - 1
       /\ (/\ pd'.total_processed = pd.total_processed + 1
           /\ pd'.total_processed % SaveEvery = 0
           => file' = pd')]_vars

\* C14 witness: a session holds four accepted items more than the file, the
\* file holding a flush made at a multiple of five.
C14_Witness ==
    /\ pc = "batch"
    /\ file.total_processed = SaveEvery
    /\ pd.total_processed = 2 * SaveEvery - 1

\* C15: when a session that entered the try block of mine_repositories ends
\* (batch complete, nothing to process, exception, user interrupt), the
\* progress file equals progress_data.
C15_FileEqualsMemoryAtExit ==
    [][/\ pc # "idle"
       /\ pc' = "idle"
       /\ exit' \in {"normal", "nothing", "error", "interrupt"}
       => file' = pd']_vars

\* C15 witness: a session was interrupted and the file holds an accepted
\* item that no periodic save wrote.
C15_Witness ==
    /\ pc = "idle"
    /\ exit \in {"error", "interrupt"}
    /\ file.total_processed % SaveEvery # 0
    /\ file = pd

\* C16: when the target is reached and the final file is written, no two of
\* its records have the same identity, and it holds every identity of the
\* batch files consolidated (the batch just written and every other batch
\* file in the directory).
C16_FinalSetDeduplicatedComplete ==
    [][final' # final =>
          /\ NoDuplicates(final')
          /\ \A k \in DOMAIN batches :
                pc = "idle" \/ k # batch_number(start_index)
                    => Range(batches[k]) \subseteq Range(final')
          /\ (pc = "batch" => Range(batch_accepted_data) \subseteq Range(final'))]_vars

\* The batch files of b that hold a record of identity n.
BatchesHolding(b, n) ==
    {k \in DOMAIN b : \E j \in 1 .. Len(b[k]) : b[k][j].name = n}

\* C17: of the records of one identity in the batch files consolidated, the
\* final file holds the one written last (the one of the highest batch).
C17_LastWriteWins ==
    \A j \in 1 .. Len(final) :
        \A k \in BatchesHolding(batches, final[j].name) :
            final[j].written >= k

\* C18: the batch written by a session that resumed at index s is stored
\* under the identifier floor(s / BATCH_SIZE) + 1: at the end of the batch
\* the batch directory holds, under that identifier, exactly the records
\* accepted by this session, and every other batch file is left as it was.
C18_BatchStoredUnderIdentifier ==
    [][BatchCompleteStep /\ pd.total_processed < TOTAL_TARGET_REPOS =>
          LET id == (start_index \div BATCH_SIZE) + 1
          IN /\ id \in DOMAIN batches'
             /\ batches'[id] = batch_accepted_data
             /\ DOMAIN batches' = DOMAIN batches \cup {id}
             /\ \A k \in DOMAIN batches \ {id} : batches'[k] = batches[k]]_vars

\* A session that resumed at an index of the second slice has written its
\* batch: the directory holds a file with identifier 2.
C18_Witness ==
    /\ pc = "idle"
    /\ exit = "normal"
    /\ 2 \in DOMAIN batches
    /\ pd.last_index > BATCH_SIZE

\* C19: on a 429 response, and on a 403 response whose remaining quota is
\* zero, make_request sleeps and then issues the request again with the
\* same url, params and use_cache, and what it returns to its caller is
\* never a rate-limit response.
C19_RateLimitedRequestReissued ==
    [][/\ (api.phase = "responded" /\ RateLimited(api.response)
              /\ api'.phase # "responded")
          => api'.phase = "sleeping"
       /\ (api.phase = "sleeping" /\ api'.phase # "sleeping")
          => /\ api'.phase = "entered"
             /\ api'.depth = api.depth + 1
             /\ api'.url = api.url
             /\ api'.params = api.params
             /\ api'.use_cache = api.use_cache
       /\ api'.phase = "returned"
          => \A j \in 1 .. Len(api'.result) : ~RateLimited(api'.result[j])]_vars

\* C20: when the upstream eventually stops answering with rate-limit
\* responses every make_request call eventually returns, and the number of
\* retries before that has no bound: a call never returns for having
\* retried too often, that is, never just after a rate-limit response.
C20_ReturnsAfterUnboundedRetries ==
    /\ (api.phase = "entered") ~> (api.phase = "returned")
    /\ [](api.phase = "returned" => ~RateLimited(api.response))

\* The first half of C20 alone.
CallEventuallyReturns == (api.phase = "entered") ~> (api.phase = "returned")

\* C21: a request whose HTTP call raised is retried inside make_request: no
\* fetch of the pipeline receives a missing response for it, and so no
\* candidate is recorded as rejected after such a fetch.
C21_RaisedRequestNeverRejects ==
    [][EvaluateStep /\ candidate_data # <<>> /\ candidate_data[1].surfaced
          => pd'.rejected_repos = pd.rejected_repos]_vars

\* C22: the cache key is the url plus the parameters in sorted order, so it
\* does not depend on the order of the parameters: once a use_cache request
\* has returned a 200 response, every later use_cache request with the
\* same url and the same parameters, in whatever order, returns straight
\* from the cache, with the same body and without an upstream call.
C22_CacheAnswersSameKey ==
    [][(/\ api.phase = "entered"
        /\ api.depth = 1
        /\ api.use_cache
        /\ api'.phase # "entered"
        /\ \E h \in api.answered : h[1] = api.url /\ h[2] = Range(api.params))
          => /\ api'.phase = "returned"
             /\ api'.response = NoResponse
             /\ \E h \in api.answered :
                   /\ h[1] = api.url
                   /\ h[2] = Range(api.params)
                   /\ api'.result = <<cached_response(h[3])>>]_vars

\* A request with two parameters has been answered from the cache with a
\* non-empty body.
C22_Witness ==
    /\ api.phase = "returned"
    /\ Len(api.params) > 1
    /\ api.use_cache
    /\ api.response = NoResponse
    /\ api.result = <<cached_response(<<4>>)>>

\* C23: every response cached during a session by any of the three services
\* is in the cache file once the session has ended, and is in the cache of
\* every service of the next session.
C23_CacheDurable ==
    [][/\ api'.phase = "idle" => api'.cached \subseteq api'.cache_file
       /\ (api.phase = "idle" /\ api'.phase = "running")
          => \A s \in ServiceNames : api.cached \subseteq api'.services[s].cache]_vars

\* The step in which a ProgressManager is constructed.
StoreLoadStep == pc = "idle" /\ pc' # "idle"

\* The progress file exists and cannot be read or parsed.
Unusable(f) == f.exists /\ (~f.readable \/ json_load(f.text) = <<>>)

\* C24: when the progress file exists but cannot be read or parsed, loading
\* yields the empty fresh state without raising, and the session proceeds
\* from that state.
C24_UnreadableFileLoadsEmpty ==
    [][/\ StoreLoadStep /\ Unusable(file)
          => /\ pc' = "loaded"
             /\ pd'.total_processed = 0
             /\ pd'.last_index = 0
             /\ pd'.search_results = <<>>
             /\ pd'.processed_repos = <<>>
             /\ pd'.rejected_repos = <<>>
             /\ pd'.config_hash = NoHash
       /\ (pc = "loaded" /\ pc' = "ensure" /\ Unusable(file))
          => start_index' = 0 /\ pd' = _create_empty_progress]_vars

\* A session goes on from the empty state while the file holds the cut
\* text of a progress that had advanced.
C24_Witness ==
    /\ pc = "ensure"
    /\ file.exists
    /\ file.text.t = "truncated"
    /\ file.text.v # json_dump(_create_empty_progress)
    /\ pd = _create_empty_progress
    /\ start_index = 0

\* C26: saving the progress to the file and loading it again reproduces
\* last_index, config_hash and the candidate cache (the same candidates in
\* the same order).
C26_SaveLoadRoundTrip ==
    [][StoreLoadStep /\ file.saved_from # <<>>
          => /\ pc' = "loaded"
             /\ Get(pd', "last_index", 0) = file.saved_from[1].last_index
             /\ Get(pd', "config_hash", NoHash) = file.saved_from[1].config_hash
             /\ Get(pd', "search_results", <<>>) = file.saved_from[1].search_results]_vars

\* A progress with a cache of two candidates, a configuration hash and an
\* advanced index has been saved and loaded again.
C26_Witness ==
    /\ pc = "loaded"
    /\ file.saved_from # <<>>
    /\ Len(file.saved_from[1].search_results) = 2
    /\ file.saved_from[1].last_index > 0
    /\ file.saved_from[1].config_hash # NoHash
    /\ pd = file.saved_from[1]

\* C25: the entry point runs exactly one session, and the process ends in
\* one of three ways: the session returned, a user interrupt was caught
\* (both a normal exit), or another exception of the session was re-raised
\* after the retry hint.
C25_EntryPointRunsOneSession ==
    pc = "exited" => sessions = 1 /\ exit \in {"normal", "interrupt", "raised"}

RECURSIVE ItemsOf(_)
ItemsOf(pages) ==
    IF pages = <<>> THEN <<>>
    ELSE (IF NoItems(Head(pages)) THEN <<>> ELSE Head(pages).items)
            \o ItemsOf(Tail(pages))

\* C28: one window fetch requests pages 1, 2, ... in order and at most 10
\* of them, requests no page after a page that was unusable or held fewer
\* items than the page size, and returns the items of the pages it received
\* concatenated in page order.
C28_PagesInOrderUntilShortPage ==
    api.phase # "idle" =>
        /\ Len(api.requested) <= 10
        /\ \A j \in 1 .. Len(api.requested) : api.requested[j] = j
        /\ \A j \in 1 .. Len(api.requested) - 1 :
              /\ ~NoItems(api.received[j])
              /\ Len(api.received[j].items) = REPOS_PER_PAGE
        /\ api.phase = "returned" => api.result = ItemsOf(api.received)

\* A fetch that returned after ten full pages.
C28_Witness ==
    /\ api.phase = "returned"
    /\ Len(api.requested) = 10
    /\ Len(api.result) = 10 * REPOS_PER_PAGE

\* C29: a session invokes the search strategy at most once (the cache check
\* is entered only when a session begins and is left by its one step), a
\* window is requested only when the resume index is at or past the length
\* of the cache valid for the current hash, and when the index is below it
\* no search request is issued.
C29_SearchOnlyWhenCacheExhausted ==
    [][LET rs == get_search_results(pd, get_config_hash(cfg))
       IN /\ pc' = "ensure" => pc = "idle" /\ sessions' = sessions + 1
          /\ pc = "ensure" => pc' # "ensure"
          /\ pc' = "merge" => pc = "ensure" /\ start_index >= Len(rs)
          /\ pc = "ensure" /\ start_index < Len(rs) =>
                pc' # "merge" /\ query' = <<>>]_vars

\* A later session found its resume index at the end of a non-empty cache
\* and requested a window.
C29_Witness ==
    pc = "merge" /\ repos # <<>> /\ start_index = Len(repos) /\ sessions > 1

\* A fetch of the given endpoints is started by the pipeline.
FetchStarts(endpoints) ==
    api.phase = "idle" /\ api'.phase = "entered" /\ api'.url[1] \in endpoints

\* The short-circuit order of _process_repository: the issue fetch is made
\* only after the pull-request fetches gave PR data, the language fetch
\* only after an average below the threshold, and no pull-request fetch
\* follows an issue or language fetch.
ShortCircuitOrder ==
    LET c == candidate_data[1]
    IN /\ FetchStarts({"pulls", "pr_commits", "commits"}) =>
             c.fetched \cap {"issues", "issues_next", "languages"} = {}
       /\ FetchStarts({"issues", "issues_next"}) =>
             /\ "pulls" \in c.fetched /\ "languages" \notin c.fetched
             /\ c.prs_data # <<>>
       /\ FetchStarts({"languages"}) =>
             /\ "issues" \in c.fetched
             /\ c.prs_data # <<>>
             /\ c.avg_days # NoAverage
             /\ ~AverageAtLeast(c.avg_days, MAX_ISSUE_CLOSE_DAYS)

\* The candidate evaluated by this step is recorded as rejected and the
\* batch goes on.
RecordedRejected ==
    /\ pd'.rejected_repos = Append(pd.rejected_repos, CandidateName)
    /\ pd'.processed_repos = pd.processed_repos
    /\ pc' = "batch" /\ exit' = exit

\* The rejections of _process_repository at the evaluation of a candidate:
\* empty PR data rejects with neither issue nor language fetch made, no
\* qualifying issue or an average at or above the maximum rejects with no
\* language fetch made.
RejectsWithoutLaterFetches ==
    LET c == candidate_data[1]
    IN EvaluateStep =>
          /\ c.prs_data = <<>> =>
                /\ RecordedRejected
                /\ c.fetched \cap {"issues", "issues_next", "languages"} = {}
          /\ (/\ c.prs_data # <<>>
              /\ (c.avg_days = NoAverage
                    \/ AverageAtLeast(c.avg_days, MAX_ISSUE_CLOSE_DAYS))) =>
                /\ RecordedRejected
                /\ "languages" \notin c.fetched

\* C30 (as stated): the pipeline short-circuits in the order PR data, issue
\* latency, latency threshold, languages, and an empty or missing result of
\* any of its fetches, the language fetch included, is a reject recorded
\* in rejected_repos that does not stop the batch.
C30_EmptyFetchAlwaysRejects ==
    [][candidate_data # <<>> =>
          /\ ShortCircuitOrder
          /\ RejectsWithoutLaterFetches
          /\ (/\ EvaluateStep
              /\ "languages" \in candidate_data[1].fetched
              /\ Not(candidate_data[1].languages)) => RecordedRejected]_vars

\* C30 (amended): the same order and rejections for the PR and issue
\* fetches; a candidate that reached the language fetch is accepted
\* whatever that fetch returned, an empty or missing result included.
C30_ShortCircuitOrder ==
    [][candidate_data # <<>> =>
          /\ ShortCircuitOrder
          /\ RejectsWithoutLaterFetches
          /\ (EvaluateStep /\ "languages" \in candidate_data[1].fetched) =>
                /\ pd'.processed_repos = Append(pd.processed_repos, CandidateName)
                /\ pd'.rejected_repos = pd.rejected_repos
                /\ pc' = "batch" /\ exit' = exit]_vars

\* The first candidate was rejected and the batch went on; the second one
\* has PR data, no qualifying issue, and is about to be rejected with no
\* language fetch made.
C30_Witness ==
    /\ i = 1
    /\ pd.rejected_repos # <<>>
    /\ candidate_data # <<>>
    /\ candidate_data[1].stage = "done"
    /\ candidate_data[1].prs_data # <<>>
    /\ candidate_data[1].avg_days = NoAverage
    /\ candidate_data[1].fetched = {"pulls", "pr_commits", "commits", "issues"}

\* The positions of the items of a page that are not pull requests and
\* carry both timestamps.
QualifyingIssues(data) ==
    {j \in 1 .. Len(data) :
        /\ ~data[j].pull_request
        /\ data[j].created_at # <<>>
        /\ data[j].closed_at # <<>>}

RECURSIVE SumOfDurations(_, _)
SumOfDurations(data, positions) ==
    IF positions = {} THEN 0
    ELSE LET j == CHOOSE x \in positions : TRUE
         IN (data[j].closed_at[1] - data[j].created_at[1])
               + SumOfDurations(data, positions \ {j})

IsPrefix(s, t) == Len(s) <= Len(t) /\ SubSeq(t, 1, Len(s)) = s

\* C32: when the evaluation of the candidate at cache index start_index + i
\* raises an unexpected exception, the session ends with the progress file
\* equal to progress_data, last_index equal to that index, the candidate in
\* neither the accepted nor the rejected list, and the entries the file held
\* before still in it; the next session resumes at that index.
C32_RaiseLeavesCandidateUnrecorded ==
    [][pc = "batch" /\ pc' = "idle" /\ exit' = "error" =>
          /\ file' = pd'
          /\ file'.last_index = start_index + i
          /\ get_next_start_index(file') = start_index + i
          /\ repos[start_index + i + 1].full_name \notin RecordedIdentities(file')
          /\ IsPrefix(file.processed_repos, file'.processed_repos)
          /\ IsPrefix(file.rejected_repos, file'.rejected_repos)]_vars

\* The pull-request numbers of a list of PullRequestData.
PrNumbers(prs_data) == [j \in 1 .. Len(prs_data) |-> prs_data[j].pr_number]

\* s is t with some of its elements left out.
RECURSIVE IsSubsequence(_, _)
IsSubsequence(s, t) ==
    IF s = <<>> THEN TRUE
    ELSE IF t = <<>> THEN FALSE
    ELSE IF Head(s) = Head(t) THEN IsSubsequence(Tail(s), Tail(t))
    ELSE IsSubsequence(s, Tail(t))

\* C33: every pull-request record collected for a repository has a
\* non-empty commit list and a resolved base commit, the records are in the
\* order the upstream listed the pull requests, and a pull request whose
\* commit fetch or base-commit fetch came back empty or missing adds no
\* record.
C33_RecordsHaveCommitsAndBase ==
    [][candidate_data # <<>> =>
          LET c == candidate_data[1]
          IN /\ \A j \in 1 .. Len(c.prs_data) :
                   /\ c.prs_data[j].commits # <<>>
                   /\ c.prs_data[j].base_commit # <<>>
             /\ IsSubsequence(PrNumbers(c.prs_data), c.listed)
             /\ (/\ c.stage \in {"pr_commits", "base_commit"}
                 /\ api.phase = "returned"
                 /\ candidate_data' # candidate_data
                 /\ (api.result = None
                       \/ api.result[1].status_code # 200
                       \/ api.result[1].body = <<>>)) =>
                   candidate_data'[1].prs_data = c.prs_data]_vars

\* Of two listed pull requests the first was skipped and the second kept.
C33_Witness ==
    /\ candidate_data # <<>>
    /\ candidate_data[1].listed = <<2, 1>>
    /\ candidate_data[1].stage = "issues"
    /\ PrNumbers(candidate_data[1].prs_data) = <<1>>

\* The counters of a progress agree with its lists and its index.
CountersAgree(p) ==
    /\ p.total_processed = Len(p.processed_repos)
    /\ p.total_processed + Len(p.rejected_repos) = p.last_index

\* C34: in every reachable state, of progress_data and of the progress
\* file, total_processed is the length of processed_repos and
\* total_processed plus the length of rejected_repos is last_index.
C34_CountersMatchLists == CountersAgree(pd) /\ CountersAgree(file)

\* Two candidates were evaluated, one accepted and one rejected.
C34_Witness ==
    /\ pd.last_index = 2
    /\ pd.total_processed = 1
    /\ Len(pd.rejected_repos) = 1

\* C35: in every reachable state last_index is at most the length of the
\* stored candidate cache, also after the cache was replaced because the
\* configuration hash changed.
C35_IndexWithinCache ==
    /\ pd.last_index <= Len(pd.search_results)
    /\ file.last_index <= Len(file.search_results)

\* C36: no identity (full_name) occurs twice in the candidate cache, in
\* progress_data or in the progress file, also when one window response
\* holds the same identity more than once.
C36_CacheIdentitiesUnique ==
    /\ NoDuplicates([j \in 1 .. Len(pd.search_results) |->
                        pd.search_results[j].full_name])
    /\ NoDuplicates([j \in 1 .. Len(file.search_results) |->
                        file.search_results[j].full_name])

\* C37: under an unchanged configuration hash a cache expansion only adds
\* items after the existing ones and changes neither last_index, the
\* accepted count and list nor the rejected list.
C37_CacheAppendOnly ==
    [][(/\ pd'.search_results # pd.search_results
        /\ pd.search_results # <<>>
        /\ pd'.config_hash = pd.config_hash) =>
          /\ Len(pd'.search_results) > Len(pd.search_results)
          /\ IsPrefix(pd.search_results, pd'.search_results)
          /\ pd'.last_index = pd.last_index
          /\ pd'.total_processed = pd.total_processed
          /\ pd'.processed_repos = pd.processed_repos
          /\ pd'.rejected_repos = pd.rejected_repos]_vars

\* A cache longer than one window: a fully evaluated first window was
\* expanded by a second one under the same hash.
C37_Witness ==
    /\ pc = "batch"
    /\ i = 0
    /\ pd.last_index = MaxWindow
    /\ Len(pd.search_results) > MaxWindow
    /\ \A j \in 1 .. Len(pd.search_results) :
          pd.search_results[j].fetched_for = pd.config_hash

\* C38: total_processed never exceeds TOTAL_TARGET_REPOS + BATCH_SIZE - 1,
\* and no session enters its try block (cache check, then batch) once the
\* stored total has met the target.
C38_TotalBoundedByTargetPlusBatch ==
    [][/\ pd'.total_processed <= TOTAL_TARGET_REPOS + BATCH_SIZE - 1
       /\ file'.total_processed <= TOTAL_TARGET_REPOS + BATCH_SIZE - 1
       /\ (pc = "idle" /\ pc' # "idle" =>
              file.total_processed < TOTAL_TARGET_REPOS)]_vars

\* A batch that crossed the target was processed to its end.
C38_Witness ==
    /\ pc = "batch"
    /\ atBatchStart.total_processed = TOTAL_TARGET_REPOS - 1
    /\ pd.total_processed = TOTAL_TARGET_REPOS + BATCH_SIZE - 1

\* C39: when the upstream answered the page of closed issues just read
\* with a next-page link and fewer than MAX_ISSUE_PAGES pages were read,
\* get_avg_issue_close_time goes on to fetch the next page, whose issues
\* enter the mean; it never reads more than MAX_ISSUE_PAGES pages.
C39_NextIssuePageFetched ==
    [][candidate_data # <<>> =>
          LET c == candidate_data[1]
          IN /\ c.page < MAX_ISSUE_PAGES
             /\ (/\ c.stage = "issue_links"
                 /\ api.phase = "returned"
                 /\ candidate_data' # candidate_data
                 /\ c.linked
                 /\ c.page + 1 < MAX_ISSUE_PAGES) =>
                   /\ candidate_data'[1].stage = "issues"
                   /\ candidate_data'[1].page = c.page + 1
                   /\ candidate_data'[1].url[1] = "issues_next"]_vars

====
